---------------------------- MODULE Spec2Model ----------------------------
(***************************************************************************)
(* State-machine model of the in-memory watch-party server (src/server.js).*)
(*                                                                         *)
(* Every WebSocket handler of server.js runs to completion without a real  *)
(* suspension point (the async handlers await nothing that yields to       *)
(* another event), so each handler, timer callback and interval callback   *)
(* is one atomic action.  A JavaScript Map is a function whose DOMAIN is   *)
(* the key set; the participant Map, whose insertion order the code reads, *)
(* is a sequence of entries with distinct userId.                          *)
(***************************************************************************)
EXTENDS Integers, Sequences, FiniteSets, TLC

\* ------------------------------------------------------------------------
\* Program constants
\* ------------------------------------------------------------------------
Null == 0                        \* null / no exclusion (broadcastToRoom's default)
OPEN == 1                        \* WebSocket.OPEN
CLOSING == 2                     \* WebSocket.CLOSING: close begun, 'close' not yet emitted
CLOSED == 3                      \* WebSocket.CLOSED: 'close' emitted
DefaultMaxParticipants == 10
MaxMessages == 200
MaxPlaybackHistory == 50
ChatHistoryReplay == 50
TimerDelay == 300000             \* deferred eviction, 5 minutes in ms
InactiveThreshold == 600000      \* sweeper threshold, 10 minutes in ms

\* ------------------------------------------------------------------------
\* Bounds of the model
\* ------------------------------------------------------------------------
MaxTicks == 1                    \* the clock advances at most this many steps
MaxChat == 2                     \* chat messages appended per room object (SpecChat)
HistMaxChat == 202               \* appends per room object under SpecHist, past the caps
HistMaxPlayback == 52
SweepTicks == 3                  \* clock steps under SpecSweep, past the sweeper's threshold
MaxPlay == 2                     \* playback updates per room object (SpecPlay)

ClockStep == TimerDelay          \* the clock is sampled every 5 minutes
MaxNow == MaxTicks * ClockStep

\* Session handles (the ws objects) and user ids are integers that never
\* coincide, as a ws object never equals a user id in broadcastToRoom.
Sessions == {101, 102, 103}
UserIds == {1, 2, 3}
RoomCodes == {"ABC"}

\* Up to renaming of sessions and order-preserving renaming of user ids,
\* every assignment of three sessions to users is one of these.
UserChoices(s) == IF s = 101 THEN {1} ELSE IF s = 102 THEN {1, 2} ELSE {1, 2, 3}
UsernameOf(u) == IF u = 1 THEN "Alice" ELSE IF u = 2 THEN "Bob" ELSE "Carol"
RoomInputs == {"abc", "ABC"}     \* the room query parameter as the client spells it

\* ------------------------------------------------------------------------
\* JavaScript helpers
\* ------------------------------------------------------------------------
\* m.f || d for an optional field
Field(m, f, d) == IF f \in DOMAIN m THEN m[f] ELSE d

\* String.prototype.toUpperCase on the room codes the model uses
ToUpperCase(str) == IF str = "abc" THEN "ABC" ELSE str

\* A chat body is a sequence of characters; " " is the only whitespace used.
IsSpace(c) == c \in {" ", "\t", "\n"}

RECURSIVE TrimStart(_)
TrimStart(str) ==
    IF str # <<>> /\ IsSpace(Head(str)) THEN TrimStart(Tail(str)) ELSE str

RECURSIVE TrimEnd(_)
TrimEnd(str) ==
    IF str # <<>> /\ IsSpace(str[Len(str)])
    THEN TrimEnd(SubSeq(str, 1, Len(str) - 1)) ELSE str

\* String.prototype.trim
Trim(str) == TrimEnd(TrimStart(str))

\* slice(0, n) in the place of slice(-n): the newest entries are the ones dropped
SliceFirst(arr, n) ==
    IF Len(arr) <= n THEN arr ELSE SubSeq(arr, 1, n)

\* Array.prototype.slice(-n)
SliceLast(arr, n) ==
    IF Len(arr) <= n THEN arr ELSE SubSeq(arr, Len(arr) - n + 1, Len(arr))

\* Map.prototype.set / delete on a Map modelled as a function
MapSet(f, k, v) == [x \in DOMAIN f \cup {k} |-> IF x = k THEN v ELSE f[x]]
MapDelete(f, k) == [x \in DOMAIN f \ {k} |-> f[x]]

\* The participant Map: insertion-ordered, keyed by userId
PIndex(ps, u) ==
    IF \E i \in 1..Len(ps) : ps[i].userId = u
    THEN CHOOSE i \in 1..Len(ps) : ps[i].userId = u
    ELSE 0
PHas(ps, u) == PIndex(ps, u) # 0
PGet(ps, u) == ps[PIndex(ps, u)]
\* set() on a present key replaces the value and keeps the key's position
PSet(ps, p) ==
    IF PHas(ps, p.userId) THEN [ps EXCEPT ![PIndex(ps, p.userId)] = p]
    ELSE Append(ps, p)
\* A delete that removes nothing
PKeep(ps, u) == ps

PDelete(ps, u) == SelectSeq(ps, LAMBDA p : p.userId # u)
PUserIds(ps) == {ps[i].userId : i \in 1..Len(ps)}

\* ------------------------------------------------------------------------
\* State
\* ------------------------------------------------------------------------
VARIABLES
    now,          \* Date.now()
    sockets,      \* accepted ws objects: readyState and the connection closure
    clients,      \* wss.clients, in connection order
    connections,  \* the connections Map: ws -> connection info
    rooms,        \* the rooms Map: roomCode -> room
    timers,       \* pending setTimeout callbacks of leaveRoom: [roomCode, due]
    sent,         \* frames delivered to each session by the last action
    last,         \* the event the last action handled
    chatLog,      \* per room object: every chat message ever pushed (history variable)
    playLog,      \* per room object: every playback entry ever pushed (history variable)
    \* the store-backed variant (src/unnamed/part_001)
    partySockets,     \* accepted ws objects: readyState, closure, position in the connect handler
    partyRooms,       \* its rooms Map: roomCode -> {info, participants, messages, lastActivity}
    partyConnections, \* its connections Map: ws -> {userId, roomCode, username}
    partyTasks,       \* handlers suspended at an await of a store write
    partySent,        \* frames delivered to each session by the last action
    partyLast,        \* the event the last action handled
    partyLog,         \* per room: every chat message ever pushed (history variable)
    \* the direct-chat server (src/unnamed/part_000)
    directSockets,    \* accepted ws objects: readyState, user, position in the connect handler
    onlineUsers,      \* userId -> the ws of the user's entry
    userSockets,      \* userId -> Set of ws
    isOnline,         \* the store's users.is_online
    statusWrites,     \* UPDATEs of is_online the store has not applied yet
    chatMessages,     \* the store's chat_messages rows, in insertion order
    directTasks,      \* handlePrivateMessage invocations whose INSERT returned, not yet resumed
    directSent,       \* frames delivered to each session by the last action
    directLast,       \* the event the last action handled
    directInbox       \* per session: the ids of the private messages delivered so far (history variable)

serverVars == <<now, sockets, clients, connections, rooms, timers, sent, last,
                chatLog, playLog>>

partyVars == <<partySockets, partyRooms, partyConnections, partyTasks,
               partySent, partyLast, partyLog>>

directVars == <<directSockets, onlineUsers, userSockets, isOnline, statusWrites, chatMessages,
                directTasks, directSent, directLast, directInbox>>
vars == <<serverVars, partyVars, directVars>>

NoFrames == [s \in Sessions |-> <<>>]

\* ws.send(JSON.stringify(frame)): reaches the peer only on an open transport
Send(snt, socks, ws, frame) ==
    IF socks[ws].readyState = OPEN THEN [snt EXCEPT ![ws] = Append(@, frame)]
    ELSE snt

Init ==
    /\ now = 0
    /\ sockets = <<>>
    /\ clients = <<>>
    /\ connections = <<>>
    /\ rooms = <<>>
    /\ timers = {}
    /\ sent = NoFrames
    /\ last = [type |-> "init"]
    /\ chatLog = <<>>
    /\ playLog = <<>>
    /\ partySockets = <<>>
    /\ partyRooms = <<>>
    /\ partyConnections = <<>>
    /\ partyTasks = {}
    /\ partySent = NoFrames
    /\ partyLast = [type |-> "init"]
    /\ partyLog = <<>>
    /\ directSockets = <<>>
    /\ onlineUsers = <<>>
    /\ userSockets = <<>>
    /\ isOnline = [u \in UserIds |-> FALSE]
    /\ statusWrites = {}
    /\ chatMessages = <<>>
    /\ directTasks = {}
    /\ directSent = NoFrames
    /\ directLast = [type |-> "init"]
    /\ directInbox = [ws \in Sessions |-> {}]


\* ------------------------------------------------------------------------
\* Room functions
\* ------------------------------------------------------------------------
\* createRoom: the new room object, inserted under roomCode.  roomName is ""
\* when the join message carries none.
createRoom(rms, roomCode, roomName, hostUserId, hostUsername, videoId, maxParticipants, isPrivate, t) ==
    MapSet(rms, roomCode,
           [room_code |-> roomCode,
            room_name |-> IF roomName # "" THEN <<roomName>>
                          ELSE <<"Sala de ", hostUsername>>,
            host_user_id |-> hostUserId,
            host_username |-> hostUsername,
            video_id |-> videoId,
            max_participants |-> maxParticipants,
            is_private |-> isPrivate,
            is_active |-> TRUE,
            created_at |-> t,
            video_current_time |-> 0,
            is_playing |-> FALSE,
            participants |-> <<>>,
            messages |-> <<>>,
            playbackHistory |-> <<>>,
            lastMessageId |-> 0])

getRoom(rms, roomCode) == rms[roomCode]

\* joinRoom: result "null" (no such room), "error" (room full) or "ok"
joinRoom(rms, roomCode, userId, username, ws, isCreating, t) ==
    IF roomCode \notin DOMAIN rms
    THEN [result |-> "null", rooms |-> rms, isHost |-> FALSE]
    ELSE LET room == rms[roomCode] IN
         IF Len(room.participants) >= room.max_participants
         THEN [result |-> "error", rooms |-> rms, isHost |-> FALSE]
         ELSE LET isHost == isCreating \/ room.host_user_id = userId
                  participant == [ws |-> ws, userId |-> userId,
                                  username |-> username, joinedAt |-> t,
                                  lastSeen |-> t, isHost |-> isHost]
                  room1 == IF isCreating
                           THEN [room EXCEPT !.host_user_id = userId,
                                             !.host_username = username]
                           ELSE room
                  room2 == [room1 EXCEPT
                              !.participants = PSet(room1.participants, participant)]
              IN [result |-> "ok", rooms |-> [rms EXCEPT ![roomCode] = room2],
                  isHost |-> isHost]

\* getRoomParticipants: the list reported to clients, in Map order
getRoomParticipants(rms, roomCode, t) ==
    IF roomCode \notin DOMAIN rms THEN <<>>
    ELSE LET ps == rms[roomCode].participants IN
         [i \in 1..Len(ps) |->
            [user_id |-> ps[i].userId, username |-> ps[i].username,
             isHost |-> ps[i].isHost, joined_at |-> ps[i].joinedAt,
             last_seen |-> t]]

\* A loop that compares exclude with the participant's ws only, never with
\* the Map key
RECURSIVE BroadcastFromButWs(_, _, _, _, _, _)
BroadcastFromButWs(ps, i, socks, snt, message, exclude) ==
    IF i > Len(ps) THEN snt
    ELSE LET p == ps[i]
             skip == exclude # Null /\ exclude = p.ws
         IN BroadcastFromButWs(ps, i + 1, socks,
                               IF skip THEN snt ELSE Send(snt, socks, p.ws, message),
                               message, exclude)

\* broadcastToRoom's loop over the participant Map, from entry i on
RECURSIVE BroadcastFrom(_, _, _, _, _, _)
BroadcastFrom(ps, i, socks, snt, message, exclude) ==
    IF i > Len(ps) THEN snt
    ELSE LET p == ps[i]
             skip == exclude # Null /\ (exclude = p.userId \/ exclude = p.ws)
         IN BroadcastFrom(ps, i + 1, socks,
                          IF skip THEN snt ELSE Send(snt, socks, p.ws, message),
                          message, exclude)

\* A broadcast that walks the participant Maps of every room of the registry
RECURSIVE BroadcastRooms(_, _, _, _, _, _)
BroadcastRooms(rms, codes, socks, snt, message, exclude) ==
    IF codes = {} THEN snt
    ELSE LET rc == CHOOSE c \in codes : TRUE
         IN BroadcastRooms(rms, codes \ {rc}, socks,
                           BroadcastFrom(rms[rc].participants, 1, socks, snt, message,
                                         exclude),
                           message, exclude)

broadcastToAllRooms(rms, socks, snt, roomCode, message, exclude) ==
    BroadcastRooms(rms, DOMAIN rms, socks, snt, message, exclude)

\* A broadcast that leaves out the author of the frame when nobody is excluded
broadcastToOthers(rms, socks, snt, roomCode, message, exclude) ==
    IF roomCode \notin DOMAIN rms THEN snt
    ELSE BroadcastFrom(rms[roomCode].participants, 1, socks, snt, message,
                       IF exclude = Null THEN Field(message, "user_id", Null)
                       ELSE exclude)

\* broadcastToRoom: the frames delivered, added to snt
broadcastToRoom(rms, socks, snt, roomCode, message, exclude) ==
    IF roomCode \notin DOMAIN rms THEN snt
    ELSE BroadcastFrom(rms[roomCode].participants, 1, socks, snt, message, exclude)

\* The first remaining participant in Map order, promoted
PromoteFirst(ps) == [ps EXCEPT ![1].isHost = TRUE]

\* leaveRoom: the value returned (left), the rooms Map, the frames delivered
\* and the pending timers after the call
leaveRoom(rms, socks, snt, tmrs, roomCode, userId, username, t) ==
    IF roomCode \notin DOMAIN rms \/ ~PHas(rms[roomCode].participants, userId)
    THEN [left |-> FALSE, rooms |-> rms, sent |-> snt, timers |-> tmrs]
    ELSE LET room == rms[roomCode]
             participant == PGet(room.participants, userId)
             ps1 == PDelete(room.participants, userId)
             succession == participant.isHost /\ Len(ps1) > 0
             ps2 == IF succession THEN PromoteFirst(ps1) ELSE ps1
             room1 == IF succession
                      THEN [room EXCEPT !.participants = ps2,
                                        !.host_user_id = ps2[1].userId,
                                        !.host_username = ps2[1].username]
                      ELSE [room EXCEPT !.participants = ps1]
             rms1 == [rms EXCEPT ![roomCode] = room1]
             snt1 == IF succession
                     THEN broadcastToRoom(rms1, socks, snt, roomCode,
                              [type |-> "system_message",
                               message |-> <<ps2[1].username, " es ahora el anfitrion">>,
                               timestamp |-> t], Null)
                     ELSE snt
             tmrs1 == IF Len(room1.participants) = 0
                      THEN tmrs \cup {[roomCode |-> roomCode, due |-> t + TimerDelay]}
                      ELSE tmrs
         IN [left |-> TRUE, rooms |-> rms1, sent |-> snt1, timers |-> tmrs1]


\* ------------------------------------------------------------------------
\* wss.on('connection')
\* ------------------------------------------------------------------------
\* A connection with both query parameters present.
Connect(ws, room, userId, username) ==
    /\ ws \notin DOMAIN sockets
    /\ LET roomCode == ToUpperCase(room)
           socks1 == MapSet(sockets, ws,
                            [readyState |-> OPEN, roomCode |-> roomCode,
                             userId |-> userId, username |-> username])
       IN /\ sockets' = socks1
          /\ clients' = Append(clients, ws)
          /\ connections' = MapSet(connections, ws,
                                   [roomCode |-> roomCode, userId |-> userId,
                                    username |-> username, ws |-> ws])
          /\ sent' = Send(NoFrames, socks1, ws,
                          [type |-> "connected", room |-> roomCode,
                           user |-> [id |-> userId, username |-> username]])
          /\ last' = [type |-> "connection", ws |-> ws]
    /\ UNCHANGED <<now, rooms, timers, chatLog, playLog,
                   partyVars, directVars>>

\* ------------------------------------------------------------------------
\* Message handlers.  Each is an operator giving the handler's outcome in the
\* current state, and an action that installs the outcome.
\* ------------------------------------------------------------------------
\* message.max_participants || 10
MaxParticipantsOf(message) ==
    IF "max_participants" \in DOMAIN message /\ message.max_participants # 0
    THEN message.max_participants ELSE DefaultMaxParticipants

RoomInfo(room) ==
    [room_code |-> room.room_code, room_name |-> room.room_name,
     host_user_id |-> room.host_user_id, host_username |-> room.host_username,
     video_id |-> room.video_id, max_participants |-> room.max_participants,
     is_private |-> room.is_private,
     video_current_time |-> room.video_current_time,
     is_playing |-> room.is_playing, created_at |-> room.created_at]

\* A playback_sync that reports the position the room was created with
PlaybackSyncInitial(room, t) ==
    [type |-> "playback_sync", current_time |-> 0, is_playing |-> FALSE,
     timestamp |-> t]

PlaybackSync(room, t) ==
    [type |-> "playback_sync", current_time |-> room.video_current_time,
     is_playing |-> room.is_playing, timestamp |-> t]

\* The frames of a successful join, after joinRoom returned
JoinFrames(rms, ws, roomCode, userId, username, isHost) ==
    LET room == rms[roomCode]
        s1 == Send(NoFrames, sockets, ws,
                   [type |-> "room_joined", room |-> RoomInfo(room),
                    user |-> [id |-> userId, username |-> username,
                              isHost |-> isHost]])
        s2 == broadcastToRoom(rms, sockets, s1, roomCode,
                   [type |-> "user_joined", user_id |-> userId,
                    username |-> username, isHost |-> isHost,
                    timestamp |-> now], ws)
        participantsUpdate ==
                   [type |-> "participants_update",
                    participants |-> getRoomParticipants(rms, roomCode, now)]
        s3 == Send(s2, sockets, ws, participantsUpdate)
        s4 == broadcastToRoom(rms, sockets, s3, roomCode, participantsUpdate, ws)
        s5 == IF Len(room.messages) > 0
              THEN Send(s4, sockets, ws,
                        [type |-> "chat_history",
                         messages |-> SliceLast(room.messages, ChatHistoryReplay)])
              ELSE s4
    IN Send(s5, sockets, ws, PlaybackSync(room, now))

ErrorFrame(text) == [type |-> "error", message |-> text]

handleJoin(ws, message) ==
    LET roomCode == sockets[ws].roomCode
        userId == sockets[ws].userId
        username == sockets[ws].username
        isCreating == Field(message, "create", FALSE)
        exists == roomCode \in DOMAIN rooms
        refused(rms, text) ==
            [joined |-> FALSE, rooms |-> rms, connections |-> connections,
             sent |-> Send(NoFrames, sockets, ws, ErrorFrame(text))]
    IN IF ~exists /\ ~isCreating
       THEN refused(rooms, "La sala no existe")
       ELSE IF exists /\ rooms[roomCode].is_private /\ ~isCreating
       THEN refused(rooms, "Esta sala es privada. Necesitas una invitacion para unirte.")
       ELSE LET rooms1 == IF exists THEN rooms
                          ELSE createRoom(rooms, roomCode,
                                          Field(message, "room_name", ""),
                                          userId, username,
                                          Field(message, "video_id", "undefined"),
                                          MaxParticipantsOf(message),
                                          Field(message, "is_private", FALSE), now)
                jr == joinRoom(rooms1, roomCode, userId, username, ws,
                               isCreating, now)
            IN IF jr.result = "error"
               THEN refused(rooms1, "La sala esta llena")
               ELSE [joined |-> TRUE, rooms |-> jr.rooms,
                     connections |->
                        IF ws \in DOMAIN connections
                        THEN [connections EXCEPT ![ws] =
                                MapSet(@, "isHost", jr.isHost)]
                        ELSE connections,
                     sent |-> JoinFrames(jr.rooms, ws, roomCode, userId,
                                         username, jr.isHost)]

\* The history variables follow the room objects: a new room starts empty logs.
LogsAfter(log, rms) ==
    [rc \in DOMAIN rms |-> IF rc \in DOMAIN rooms /\ rc \in DOMAIN log
                           THEN log[rc] ELSE <<>>]

Join(ws, message) ==
    /\ ws \in DOMAIN sockets /\ sockets[ws].readyState = OPEN
    /\ LET out == handleJoin(ws, message)
       IN /\ rooms' = out.rooms
          /\ connections' = out.connections
          /\ sent' = out.sent
          /\ last' = [type |-> "join", ws |-> ws, message |-> message,
                      joined |-> out.joined]
          /\ chatLog' = LogsAfter(chatLog, out.rooms)
          /\ playLog' = LogsAfter(playLog, out.rooms)
    /\ UNCHANGED <<now, sockets, clients, timers,
                   partyVars, directVars>>

\* room.lastMessageId++ in the place of ++room.lastMessageId
NextMessageIdPost(room) == room.lastMessageId

\* ++room.lastMessageId
NextMessageId(room) == room.lastMessageId + 1

handleChatMessage(ws, message) ==
    LET roomCode == sockets[ws].roomCode
        userId == sockets[ws].userId
        username == sockets[ws].username
        nothing == [appended |-> FALSE, rooms |-> rooms, sent |-> NoFrames]
    IN IF roomCode \notin DOMAIN rooms THEN nothing
       ELSE IF "message" \notin DOMAIN message \/ message.message = <<>>
               \/ Trim(message.message) = <<>> THEN nothing
       ELSE IF ~PHas(rooms[roomCode].participants, userId) THEN nothing
       ELSE LET room == rooms[roomCode]
                chatMessage == [id |-> NextMessageId(room),
                                type |-> "chat_message", user_id |-> userId,
                                username |-> username,
                                message |-> Trim(message.message),
                                timestamp |-> now]
                pushed == Append(room.messages, chatMessage)
                room1 == [room EXCEPT
                            !.lastMessageId = room.lastMessageId + 1,
                            !.messages = IF Len(pushed) > MaxMessages
                                         THEN SliceLast(pushed, MaxMessages)
                                         ELSE pushed]
                rooms1 == [rooms EXCEPT ![roomCode] = room1]
            IN [appended |-> TRUE, rooms |-> rooms1, pushed |-> chatMessage,
                sent |-> broadcastToRoom(rooms1, sockets, NoFrames, roomCode,
                                         chatMessage, Null)]

ChatMessage(ws, message) ==
    /\ ws \in DOMAIN sockets /\ sockets[ws].readyState = OPEN
    /\ LET out == handleChatMessage(ws, message)
           roomCode == sockets[ws].roomCode
       IN /\ rooms' = out.rooms
          /\ sent' = out.sent
          /\ chatLog' = IF out.appended
                        THEN [chatLog EXCEPT ![roomCode] =
                                Append(@, out.pushed)]
                        ELSE chatLog
          /\ last' = [type |-> "chat_message", ws |-> ws, message |-> message]
    /\ UNCHANGED <<now, sockets, clients, connections, timers, playLog,
                   partyVars, directVars>>

handlePlaybackUpdate(ws, message) ==
    LET roomCode == sockets[ws].roomCode
        userId == sockets[ws].userId
        username == sockets[ws].username
    IN IF roomCode \notin DOMAIN rooms
       THEN [appended |-> FALSE, rooms |-> rooms, sent |-> NoFrames]
       ELSE LET room == rooms[roomCode]
                currentTime == Field(message, "current_time", 0)
                isPlaying == Field(message, "is_playing", FALSE)
                entry == [user_id |-> userId, current_time |-> currentTime,
                          is_playing |-> isPlaying, timestamp |-> now]
                pushed == Append(room.playbackHistory, entry)
                room1 == [room EXCEPT
                            !.video_current_time = currentTime,
                            !.is_playing = isPlaying,
                            !.playbackHistory =
                                IF Len(pushed) > MaxPlaybackHistory
                                THEN SliceLast(pushed, MaxPlaybackHistory)
                                ELSE pushed]
                rooms1 == [rooms EXCEPT ![roomCode] = room1]
            IN [appended |-> TRUE, rooms |-> rooms1, pushed |-> entry,
                sent |-> broadcastToRoom(rooms1, sockets, NoFrames, roomCode,
                            [type |-> "playback_update", user_id |-> userId,
                             username |-> username,
                             event_type |-> Field(message, "event_type", "update"),
                             current_time |-> currentTime,
                             is_playing |-> isPlaying, timestamp |-> now],
                            userId)]

PlaybackUpdate(ws, message) ==
    /\ ws \in DOMAIN sockets /\ sockets[ws].readyState = OPEN
    /\ LET out == handlePlaybackUpdate(ws, message)
           roomCode == sockets[ws].roomCode
       IN /\ rooms' = out.rooms
          /\ sent' = out.sent
          /\ playLog' = IF out.appended
                        THEN [playLog EXCEPT ![roomCode] =
                                Append(@, out.pushed)]
                        ELSE playLog
          /\ last' = [type |-> "playback_update", ws |-> ws, message |-> message]
    /\ UNCHANGED <<now, sockets, clients, connections, timers, chatLog,
                   partyVars, directVars>>


handleParticipantsRequest(ws) ==
    Send(NoFrames, sockets, ws,
         [type |-> "participants_list",
          participants |-> getRoomParticipants(rooms, sockets[ws].roomCode, now)])

ParticipantsRequest(ws) ==
    /\ ws \in DOMAIN sockets /\ sockets[ws].readyState = OPEN
    /\ sent' = handleParticipantsRequest(ws)
    /\ last' = [type |-> "participants_request", ws |-> ws]
    /\ UNCHANGED <<now, sockets, clients, connections, rooms, timers,
                   chatLog, playLog,
                   partyVars, directVars>>

handleSyncRequest(ws) ==
    IF sockets[ws].roomCode \notin DOMAIN rooms THEN NoFrames
    ELSE Send(NoFrames, sockets, ws,
              PlaybackSync(rooms[sockets[ws].roomCode], now))

SyncRequest(ws) ==
    /\ ws \in DOMAIN sockets /\ sockets[ws].readyState = OPEN
    /\ sent' = handleSyncRequest(ws)
    /\ last' = [type |-> "sync_request", ws |-> ws]
    /\ UNCHANGED <<now, sockets, clients, connections, rooms, timers,
                   chatLog, playLog,
                   partyVars, directVars>>

UserLeft(userId, username, t) ==
    [type |-> "user_left", user_id |-> userId, username |-> username,
     timestamp |-> t]

\* The two broadcasts that follow a leaveRoom that returned true
LeftFrames(lr, roomCode, userId, username, exclude) ==
    LET s1 == broadcastToRoom(lr.rooms, sockets, lr.sent, roomCode,
                              UserLeft(userId, username, now), exclude)
    IN broadcastToRoom(lr.rooms, sockets, s1, roomCode,
                       [type |-> "participants_update",
                        participants |-> getRoomParticipants(lr.rooms, roomCode, now)],
                       Null)

handleLeave(ws) ==
    LET roomCode == sockets[ws].roomCode
        userId == sockets[ws].userId
        username == sockets[ws].username
    IN IF roomCode \notin DOMAIN rooms
       THEN [left |-> FALSE, rooms |-> rooms, sent |-> NoFrames, timers |-> timers]
       ELSE LET lr == leaveRoom(rooms, sockets, NoFrames, timers, roomCode,
                                userId, username, now)
            IN IF lr.left
               THEN [lr EXCEPT !.sent = LeftFrames(lr, roomCode, userId,
                                                   username, Null)]
               ELSE lr

Leave(ws) ==
    /\ ws \in DOMAIN sockets /\ sockets[ws].readyState = OPEN
    /\ LET out == handleLeave(ws)
       IN /\ rooms' = out.rooms
          /\ sent' = out.sent
          /\ timers' = out.timers
          /\ last' = [type |-> "leave", ws |-> ws, left |-> out.left]
    /\ UNCHANGED <<now, sockets, clients, connections, chatLog, playLog,
                   partyVars, directVars>>

\* ------------------------------------------------------------------------
\* Transport events
\* ------------------------------------------------------------------------
\* ws.terminate(), and a transport the peer or the network closes: the ws
\* leaves the open state; its 'close' event is emitted later.
Terminate(socks, ws) ==
    IF socks[ws].readyState = OPEN
    THEN [socks EXCEPT ![ws].readyState = CLOSING] ELSE socks

\* A catch branch that also closes the session and forgets its registration
onMessageErrorClose(ws) ==
    [sockets |-> Terminate(sockets, ws),
     connections |-> MapDelete(connections, ws),
     sent |-> NoFrames]

\* ws.on('message'), catch branch: JSON.parse or the handler threw
onMessageError(ws) ==
    [sockets |-> sockets,
     connections |-> connections,
     sent |-> Send(NoFrames, sockets, ws, ErrorFrame("Error al procesar el mensaje"))]

\* A frame that is not JSON ("{oops"), or is JSON without properties ("null",
\* on which message.type throws)
InvalidFrames == {"{oops", "null"}

InvalidFrame(ws, data) ==
    /\ ws \in DOMAIN sockets /\ sockets[ws].readyState = OPEN
    /\ LET out == onMessageError(ws)
       IN /\ sockets' = out.sockets
          /\ connections' = out.connections
          /\ sent' = out.sent
    /\ last' = [type |-> "invalid_frame", ws |-> ws, data |-> data]
    /\ UNCHANGED <<now, clients, rooms, timers, chatLog, playLog,
                   partyVars, directVars>>

\* handleMessage, default branch: the type is no known command
UnknownMessages == { [type |-> "bogus"], [body |-> "x"] }

UnknownCommand(ws, message) ==
    /\ ws \in DOMAIN sockets /\ sockets[ws].readyState = OPEN
    /\ sent' = NoFrames
    /\ last' = [type |-> "unknown_command", ws |-> ws, message |-> message]
    /\ UNCHANGED <<now, sockets, clients, connections, rooms, timers,
                   chatLog, playLog,
                   partyVars, directVars>>

TransportDown(ws) ==
    /\ ws \in DOMAIN sockets /\ sockets[ws].readyState = OPEN
    /\ sockets' = Terminate(sockets, ws)
    /\ sent' = NoFrames
    /\ last' = [type |-> "transport_down", ws |-> ws]
    /\ UNCHANGED <<now, clients, connections, rooms, timers, chatLog, playLog,
                   partyVars, directVars>>

\* ws.on('close'), with the ws already in the closed state
onClose(ws) ==
    LET userId == sockets[ws].userId
        username == sockets[ws].username
        socks1 == [sockets EXCEPT ![ws].readyState = CLOSED]
    IN IF ws \notin DOMAIN connections
       THEN [left |-> FALSE, rooms |-> rooms, sent |-> NoFrames,
             timers |-> timers, connections |-> connections]
       ELSE LET roomCode == connections[ws].roomCode
                lr == leaveRoom(rooms, socks1, NoFrames, timers, roomCode,
                                userId, username, now)
                conns1 == MapDelete(connections, ws)
            IN IF lr.left /\ roomCode \in DOMAIN lr.rooms
               THEN [left |-> TRUE, rooms |-> lr.rooms,
                     sent |-> LeftFrames(lr, roomCode, userId, username, ws),
                     timers |-> lr.timers, connections |-> conns1]
               ELSE [left |-> lr.left, rooms |-> lr.rooms, sent |-> lr.sent,
                     timers |-> lr.timers, connections |-> conns1]

Close(ws) ==
    /\ ws \in DOMAIN sockets /\ sockets[ws].readyState = CLOSING
    /\ LET out == onClose(ws)
       IN /\ rooms' = out.rooms
          /\ sent' = out.sent
          /\ timers' = out.timers
          /\ connections' = out.connections
          /\ last' = [type |-> "close", ws |-> ws, left |-> out.left]
    /\ sockets' = [sockets EXCEPT ![ws].readyState = CLOSED]
    /\ clients' = SelectSeq(clients, LAMBDA c : c # ws)
    /\ UNCHANGED <<now, chatLog, playLog,
                   partyVars, directVars>>

\* ------------------------------------------------------------------------
\* Timers and intervals
\* ------------------------------------------------------------------------
\* The heartbeat's loop over wss.clients, from client i on.  A client with no
\* connections entry makes `conn.isAlive = false` throw, which ends the loop.
RECURSIVE HeartbeatFrom(_, _, _, _)
HeartbeatFrom(cl, i, socks, conns) ==
    IF i > Len(cl) THEN [sockets |-> socks, connections |-> conns]
    ELSE LET ws == cl[i] IN
         IF ws \in DOMAIN conns /\ ~Field(conns[ws], "isAlive", FALSE)
         THEN HeartbeatFrom(cl, i + 1, Terminate(socks, ws), MapDelete(conns, ws))
         ELSE IF ws \notin DOMAIN conns
         THEN [sockets |-> socks, connections |-> conns]
         ELSE HeartbeatFrom(cl, i + 1, socks,
                            [conns EXCEPT ![ws] = MapSet(@, "isAlive", FALSE)])

heartbeatInterval == HeartbeatFrom(clients, 1, sockets, connections)

Heartbeat ==
    /\ sockets' = heartbeatInterval.sockets
    /\ connections' = heartbeatInterval.connections
    /\ sent' = NoFrames
    /\ last' = [type |-> "heartbeat",
                terminated |-> {ws \in DOMAIN sockets :
                                  /\ sockets[ws].readyState = OPEN
                                  /\ heartbeatInterval.sockets[ws].readyState # OPEN}]
    /\ UNCHANGED <<now, clients, rooms, timers, chatLog, playLog,
                   partyVars, directVars>>

\* The periodic cleanup
sweepConnections(conns) ==
    [ws \in {w \in DOMAIN conns : sockets[w].readyState <= 1} |-> conns[ws]]

\* A cleanup that drops every room past the threshold, occupied or not
sweepOldRooms(rms) ==
    [rc \in {r \in DOMAIN rms : ~(now - rms[r].created_at > InactiveThreshold)} |-> rms[rc]]

sweepRooms(rms) ==
    [rc \in {r \in DOMAIN rms :
                ~(Len(rms[r].participants) = 0
                  /\ now - rms[r].created_at > InactiveThreshold)} |-> rms[rc]]

Sweeper ==
    /\ connections' = sweepConnections(connections)
    /\ rooms' = sweepRooms(rooms)
    /\ chatLog' = LogsAfter(chatLog, rooms')
    /\ playLog' = LogsAfter(playLog, rooms')
    /\ sent' = NoFrames
    /\ last' = [type |-> "sweep"]
    /\ UNCHANGED <<now, sockets, clients, timers,
                   partyVars, directVars>>

\* A callback that deletes the room without looking at its participants
evictAlways(rms, roomCode) == MapDelete(rms, roomCode)

\* The setTimeout callback of leaveRoom
evictIfEmpty(rms, roomCode) ==
    IF roomCode \in DOMAIN rms /\ Len(rms[roomCode].participants) = 0
    THEN MapDelete(rms, roomCode) ELSE rms

TimerFire(timer) ==
    /\ timer \in timers
    /\ now >= timer.due
    /\ timers' = timers \ {timer}
    /\ rooms' = evictIfEmpty(rooms, timer.roomCode)
    /\ chatLog' = LogsAfter(chatLog, rooms')
    /\ playLog' = LogsAfter(playLog, rooms')
    /\ sent' = NoFrames
    /\ last' = [type |-> "timer", roomCode |-> timer.roomCode]
    /\ UNCHANGED <<now, sockets, clients, connections,
                   partyVars, directVars>>

\* Time passes; a timer that is due fires before the clock moves on.
TickUpTo(limit) ==
    /\ now + ClockStep <= limit
    /\ \A timer \in timers : timer.due > now
    /\ now' = now + ClockStep
    /\ sent' = NoFrames
    /\ last' = [type |-> "tick"]
    /\ UNCHANGED <<sockets, clients, connections, rooms, timers, chatLog, playLog,
                   partyVars, directVars>>

Tick == TickUpTo(MaxNow)

\* ------------------------------------------------------------------------
\* The store-backed watch-party variant (src/unnamed/part_001).  Its handlers
\* are async functions: each runs up to its next await of the store, and the
\* store answers the outstanding calls in any order.
\* ------------------------------------------------------------------------
PartyMaxMessages == 100

\* The rows the lookups select from watch_parties and users: the handlers
\* take rows[0], and no row is null
getRoomFromDB(roomCode) ==
    IF roomCode = "ABC"
    THEN <<[id |-> 1, room_code |-> "ABC", host_user_id |-> 1, max_participants |-> 3,
            video_current_time |-> 0, is_playing |-> FALSE]>>
    ELSE <<>>

getUserFromDB(userId) ==
    IF userId \in UserIds THEN <<[id |-> userId, username |-> UsernameOf(userId)]>>
    ELSE <<>>

\* wss.on('connection') up to its first await: both parameters are present
PartyConnect(ws, room, userId) ==
    /\ ws \notin DOMAIN partySockets
    /\ partySockets' = MapSet(partySockets, ws,
                              [readyState |-> OPEN, roomCode |-> room,
                               userId |-> userId, stage |-> "lookup"])
    /\ partySent' = NoFrames
    /\ partyLast' = [type |-> "connection", ws |-> ws]
    /\ UNCHANGED <<serverVars, directVars, partyRooms, partyConnections, partyTasks, partyLog>>

\* ws.close(code, reason)
PartyCloseSocket(socks, ws) ==
    IF socks[ws].readyState = OPEN
    THEN [socks EXCEPT ![ws].readyState = CLOSING] ELSE socks

partyParticipantsList(ps) ==
    [i \in 1..Len(ps) |->
        [user_id |-> ps[i].userId, username |-> ps[i].username,
         last_seen |-> ps[i].lastSeen]]

\* broadcastToRoom of part_001, from entry i of the participant Map on
RECURSIVE PartyBroadcastFrom(_, _, _, _, _, _)
PartyBroadcastFrom(ps, i, socks, snt, message, excludeUserId) ==
    IF i > Len(ps) THEN snt
    ELSE PartyBroadcastFrom(ps, i + 1, socks,
            IF ps[i].userId # excludeUserId
            THEN Send(snt, socks, ps[i].ws, message) ELSE snt,
            message, excludeUserId)

partyBroadcastToRoom(rms, socks, snt, roomCode, message, excludeUserId) ==
    IF roomCode \notin DOMAIN rms THEN snt
    ELSE PartyBroadcastFrom(rms[roomCode].participants, 1, socks, snt, message,
                            excludeUserId)

\* The connect handler after both lookups returned, up to the await of
\* updateParticipantLastSeen.  It does not look at the transport's state.
PartyAdmit(ws) ==
    /\ ws \in DOMAIN partySockets /\ partySockets[ws].stage = "lookup"
    /\ LET roomCode == partySockets[ws].roomCode
           userId == partySockets[ws].userId
           roomInfo == getRoomFromDB(roomCode)[1]
           userInfo == getUserFromDB(userId)[1]
           rooms1 == IF roomCode \in DOMAIN partyRooms THEN partyRooms
                     ELSE MapSet(partyRooms, roomCode,
                                 [info |-> roomInfo, participants |-> <<>>,
                                  messages |-> <<>>, lastActivity |-> now])
       IN IF getRoomFromDB(roomCode) = <<>> \/ getUserFromDB(userId) = <<>>
          THEN /\ partySockets' = [PartyCloseSocket(partySockets, ws)
                                     EXCEPT ![ws].stage = "refused"]
               /\ UNCHANGED <<partyRooms, partyConnections, partyLog>>
          ELSE IF Len(rooms1[roomCode].participants) >= roomInfo.max_participants
          THEN /\ partySockets' = [PartyCloseSocket(partySockets, ws)
                                     EXCEPT ![ws].stage = "refused"]
               /\ partyRooms' = rooms1
               /\ partyLog' = [rc \in DOMAIN rooms1 |->
                                 IF rc \in DOMAIN partyLog THEN partyLog[rc] ELSE <<>>]
               /\ UNCHANGED partyConnections
          ELSE /\ partyRooms' =
                    [rooms1 EXCEPT ![roomCode].participants =
                        PSet(@, [ws |-> ws, userId |-> userId,
                                 username |-> userInfo.username,
                                 joinedAt |-> now, lastSeen |-> now])]
               /\ partyConnections' =
                    MapSet(partyConnections, ws,
                           [userId |-> userId, roomCode |-> roomCode,
                            username |-> userInfo.username])
               /\ partyLog' = [rc \in DOMAIN rooms1 |->
                                 IF rc \in DOMAIN partyLog THEN partyLog[rc] ELSE <<>>]
               /\ partySockets' = [partySockets EXCEPT ![ws].stage = "last_seen"]
    /\ partySent' = NoFrames
    /\ partyLast' = [type |-> "admit", ws |-> ws]
    /\ UNCHANGED <<serverVars, directVars, partyTasks>>

\* The frames the connect handler sends once the last_seen write returned
PartyWelcomeFrames(ws) ==
    LET roomCode == partySockets[ws].roomCode
        userId == partySockets[ws].userId
        roomInfo == getRoomFromDB(roomCode)[1]
        s1 == Send(NoFrames, partySockets, ws,
                   [type |-> "room_info", room |-> roomInfo,
                    user |-> [id |-> userId, username |-> UsernameOf(userId),
                              isHost |-> roomInfo.host_user_id = userId]])
        s2 == IF roomCode \in DOMAIN partyRooms
              THEN partyBroadcastToRoom(partyRooms, partySockets, s1, roomCode,
                      [type |-> "participants_update",
                       participants |->
                          partyParticipantsList(partyRooms[roomCode].participants)],
                      ws)
              ELSE s1
    IN IF roomCode \in DOMAIN partyRooms /\ Len(partyRooms[roomCode].messages) > 0
       THEN Send(s2, partySockets, ws,
                 [type |-> "chat_history",
                  messages |-> SliceLast(partyRooms[roomCode].messages,
                                         ChatHistoryReplay)])
       ELSE s2

\* The connect handler after updateParticipantLastSeen returned: it sends the
\* welcome frames and registers the message and close listeners.  ws.send on a
\* transport that is no longer open either throws, which ends the handler
\* before the listeners are registered, or is dropped, with which the handler
\* goes on: both outcomes are possible.
PartyWelcome(ws, sendThrows) ==
    /\ ws \in DOMAIN partySockets /\ partySockets[ws].stage = "last_seen"
    /\ sendThrows => partySockets[ws].readyState # OPEN
    /\ partySockets' = [partySockets EXCEPT ![ws].stage =
                           IF sendThrows THEN "failed" ELSE "ready"]
    /\ partySent' = IF sendThrows THEN NoFrames ELSE PartyWelcomeFrames(ws)
    /\ partyLast' = [type |-> "welcome", ws |-> ws]
    /\ UNCHANGED <<serverVars, directVars, partyRooms, partyConnections, partyTasks, partyLog>>

\* handleMessage of part_001 accepts a frame: the listener is registered, the
\* room is in memory and the session's user id is a key of its participants
PartyAccepts(ws) ==
    /\ ws \in DOMAIN partySockets
    /\ partySockets[ws].readyState = OPEN
    /\ partySockets[ws].stage = "ready"
    /\ partySockets[ws].roomCode \in DOMAIN partyRooms
    /\ PHas(partyRooms[partySockets[ws].roomCode].participants,
            partySockets[ws].userId)

\* handleMessage's bookkeeping before the switch
PartyTouch(rms, roomCode, userId) ==
    [rms EXCEPT ![roomCode].lastActivity = now,
                ![roomCode].participants =
                    PSet(@, [PGet(@, userId) EXCEPT !.lastSeen = now])]

\* handleChatMessage up to its await of saveChatMessage: the message is in
\* the room's history and the handler waits for the store
PartyChat(ws, message) ==
    /\ PartyAccepts(ws)
    /\ LET roomCode == partySockets[ws].roomCode
           userId == partySockets[ws].userId
           rooms1 == PartyTouch(partyRooms, roomCode, userId)
           chatMessage == [type |-> "chat_message", user_id |-> userId,
                           username |-> PGet(rooms1[roomCode].participants,
                                             userId).username,
                           message |-> message.content, timestamp |-> now]
           pushed == Append(rooms1[roomCode].messages, chatMessage)
       IN /\ partyRooms' = [rooms1 EXCEPT ![roomCode].messages =
                               IF Len(pushed) > PartyMaxMessages
                               THEN SliceLast(pushed, PartyMaxMessages)
                               ELSE pushed]
          /\ partyLog' = [partyLog EXCEPT ![roomCode] = Append(@, chatMessage)]
          /\ partyTasks' = partyTasks \cup
                 {[kind |-> "chat", roomCode |-> roomCode,
                   seq |-> Len(partyLog[roomCode]) + 1, frame |-> chatMessage,
                   excludeUserId |-> Null]}
    /\ partySent' = NoFrames
    /\ partyLast' = [type |-> "chat_message", ws |-> ws, message |-> message]
    /\ UNCHANGED <<serverVars, directVars, partySockets, partyConnections>>

\* handlePlaybackUpdate up to its await of updateRoomPlayback: the room's
\* in-memory playback state is the message's
PartyPlayback(ws, message) ==
    /\ PartyAccepts(ws)
    /\ LET roomCode == partySockets[ws].roomCode
           userId == partySockets[ws].userId
           rooms1 == PartyTouch(partyRooms, roomCode, userId)
       IN /\ partyRooms' = [rooms1 EXCEPT
                               ![roomCode].info.video_current_time = message.current_time,
                               ![roomCode].info.is_playing = message.is_playing]
          /\ partyTasks' = partyTasks \cup
                 {[kind |-> "playback", roomCode |-> roomCode,
                   frame |-> [type |-> "playback_update", user_id |-> userId,
                              username |-> PGet(rooms1[roomCode].participants,
                                                userId).username,
                              event_type |-> message.event_type,
                              current_time |-> message.current_time,
                              is_playing |-> message.is_playing],
                   excludeUserId |-> userId]}
    /\ partySent' = NoFrames
    /\ partyLast' = [type |-> "playback_update", ws |-> ws, message |-> message]
    /\ UNCHANGED <<serverVars, directVars, partySockets, partyConnections, partyLog>>

\* The frame a resumed handler broadcasts: handlePlaybackUpdate stamps its
\* frame when it broadcasts
PartyTaskFrame(task) ==
    IF task.kind = "playback"
    THEN [type |-> task.frame.type, user_id |-> task.frame.user_id,
          username |-> task.frame.username, event_type |-> task.frame.event_type,
          current_time |-> task.frame.current_time,
          is_playing |-> task.frame.is_playing, timestamp |-> now]
    ELSE task.frame

\* The store answers an outstanding write; the suspended handler resumes and
\* broadcasts.
PartyStoreDone(task) ==
    /\ task \in partyTasks
    /\ partyTasks' = partyTasks \ {task}
    /\ partySent' = partyBroadcastToRoom(partyRooms, partySockets, NoFrames,
                                         task.roomCode, PartyTaskFrame(task),
                                         task.excludeUserId)
    /\ partyLast' = [type |-> "store_done", task |-> task]
    /\ UNCHANGED <<serverVars, directVars, partySockets, partyRooms, partyConnections, partyLog>>

PartySystemMessage(text) == [type |-> "system_message", message |-> text]

\* handleUserAction
partyHandleUserAction(rms, socks, roomCode, userId, username, message) ==
    LET room == rms[roomCode]
        isHost == room.info.host_user_id = userId
        nothing == [rooms |-> rms, sockets |-> socks, sent |-> NoFrames]
    IN IF message.action = "remove_participant"
       THEN IF isHost /\ message.target_user_id # userId
            THEN LET socks1 ==
                        IF PHas(room.participants, message.target_user_id)
                        THEN PartyCloseSocket(socks,
                                PGet(room.participants, message.target_user_id).ws)
                        ELSE socks
                 IN [rooms |-> rms, sockets |-> socks1,
                     sent |-> partyBroadcastToRoom(rms, socks1, NoFrames, roomCode,
                                 PartySystemMessage("El anfitrion ha removido a un participante"),
                                 Null)]
            ELSE nothing
       ELSE IF message.action = "promote_to_cohost"
       THEN IF isHost
            THEN [rooms |-> rms, sockets |-> socks,
                  sent |-> partyBroadcastToRoom(rms, socks, NoFrames, roomCode,
                              PartySystemMessage(<<username, " ha sido promovido a co-anfitrion">>),
                              Null)]
            ELSE nothing
       ELSE IF message.action = "transfer_host"
       THEN IF isHost
            THEN LET rms1 == [rms EXCEPT ![roomCode].info.host_user_id =
                                              message.new_host_id]
                 IN [rooms |-> rms1, sockets |-> socks,
                     sent |-> partyBroadcastToRoom(rms1, socks, NoFrames, roomCode,
                                 PartySystemMessage("El anfitrion ha sido transferido"),
                                 Null)]
            ELSE nothing
       ELSE nothing

PartyUserAction(ws, message) ==
    /\ PartyAccepts(ws)
    /\ LET roomCode == partySockets[ws].roomCode
           userId == partySockets[ws].userId
           rooms1 == PartyTouch(partyRooms, roomCode, userId)
           out == partyHandleUserAction(rooms1, partySockets, roomCode, userId,
                      PGet(rooms1[roomCode].participants, userId).username,
                      message)
       IN /\ partyRooms' = out.rooms
          /\ partySockets' = out.sockets
          /\ partySent' = out.sent
    /\ partyLast' = [type |-> "user_action", ws |-> ws, message |-> message]
    /\ UNCHANGED <<serverVars, directVars, partyConnections, partyTasks, partyLog>>

\* The transport is closed by the peer or the network; 'close' is emitted later
PartyTransportDown(ws) ==
    /\ ws \in DOMAIN partySockets /\ partySockets[ws].readyState = OPEN
    /\ partySockets' = PartyCloseSocket(partySockets, ws)
    /\ partySent' = NoFrames
    /\ partyLast' = [type |-> "transport_down", ws |-> ws]
    /\ UNCHANGED <<serverVars, directVars, partyRooms, partyConnections, partyTasks, partyLog>>

\* ws.on('close') of part_001, without the 5-minute timer it sets on an empty
\* room
partyOnClose(ws, socks) ==
    IF ws \notin DOMAIN partyConnections
    THEN [rooms |-> partyRooms, connections |-> partyConnections, sent |-> NoFrames]
    ELSE LET roomCode == partyConnections[ws].roomCode
             userId == partyConnections[ws].userId
             username == partyConnections[ws].username
             conns1 == MapDelete(partyConnections, ws)
         IN IF roomCode \notin DOMAIN partyRooms
            THEN [rooms |-> partyRooms, connections |-> conns1, sent |-> NoFrames]
            ELSE LET rooms1 == [partyRooms EXCEPT ![roomCode].participants =
                                                     PDelete(@, userId)]
                     s1 == partyBroadcastToRoom(rooms1, socks, NoFrames, roomCode,
                              PartySystemMessage(<<username, " ha abandonado la sala">>),
                              Null)
                     s2 == partyBroadcastToRoom(rooms1, socks, s1, roomCode,
                              [type |-> "participants_update",
                               participants |->
                                  partyParticipantsList(rooms1[roomCode].participants)],
                              Null)
                 IN [rooms |-> rooms1, connections |-> conns1,
                     sent |-> IF Len(rooms1[roomCode].participants) = 0
                              THEN NoFrames ELSE s2]

\* The 'close' event: the close listener runs only if the connect handler has
\* registered it by now
PartyClose(ws) ==
    /\ ws \in DOMAIN partySockets /\ partySockets[ws].readyState = CLOSING
    /\ LET socks1 == [partySockets EXCEPT ![ws].readyState = CLOSED]
           out == IF partySockets[ws].stage = "ready"
                  THEN partyOnClose(ws, socks1)
                  ELSE [rooms |-> partyRooms, connections |-> partyConnections,
                        sent |-> NoFrames]
       IN /\ partySockets' = socks1
          /\ partyRooms' = out.rooms
          /\ partyConnections' = out.connections
          /\ partySent' = out.sent
    /\ partyLast' = [type |-> "close", ws |-> ws]
    /\ UNCHANGED <<serverVars, directVars, partyTasks, partyLog>>

\* ------------------------------------------------------------------------
\* The direct-chat server (src/unnamed/part_000).  Its handlers are async
\* functions: each runs up to its next await of the store.  The store applies
\* the UPDATEs of users.is_online in any order, and every chat_messages row
\* gets its own created_at instant, later for a later insert.
\* ------------------------------------------------------------------------
ReplayLimit == 10

\* directInbox with the private messages of the frames just delivered
InboxAfter(snt) ==
    [ws \in Sessions |->
        directInbox[ws] \cup
           {snt[ws][i].message_id :
               i \in {k \in 1..Len(snt[ws]) : snt[ws][k].type = "private_message"}}]

\* ws.close / the transport going down
DirectCloseSocket(socks, ws) ==
    IF socks[ws].readyState = OPEN
    THEN [socks EXCEPT ![ws].readyState = CLOSING] ELSE socks

\* wss.on('connection') up to its await of updateUserOnlineStatus(userId, true)
DirectConnect(ws, userId) ==
    /\ ws \notin DOMAIN directSockets
    /\ directSockets' = MapSet(directSockets, ws,
                               [readyState |-> OPEN, userId |-> userId,
                                stage |-> "status", unread |-> <<>>])
    /\ onlineUsers' = MapSet(onlineUsers, userId, ws)
    /\ userSockets' = MapSet(userSockets, userId,
                             (IF userId \in DOMAIN userSockets
                              THEN userSockets[userId] ELSE {}) \cup {ws})
    /\ statusWrites' = statusWrites \cup
                          {[userId |-> userId, isOnline |-> TRUE, ws |-> ws,
                            resumes |-> TRUE]}
    /\ directSent' = NoFrames
    /\ directLast' = [type |-> "connection", ws |-> ws]
    /\ directInbox' = InboxAfter(directSent')
    /\ UNCHANGED <<serverVars, partyVars, isOnline, chatMessages, directTasks>>

\* updateUserOnlineStatus: the store applies the UPDATE.  The connect handler
\* that awaited it resumes, sends 'connected' and calls
\* sendPendingNotifications, which awaits its first SELECT.  ws.send on a
\* transport that is no longer open either throws, which ends the connect
\* handler, or is dropped: both outcomes are possible.
DirectStatusDone(write, sendThrows) ==
    /\ write \in statusWrites
    /\ statusWrites' = statusWrites \ {write}
    /\ isOnline' = [isOnline EXCEPT ![write.userId] = write.isOnline]
    /\ IF write.resumes
       THEN /\ sendThrows => directSockets[write.ws].readyState # OPEN
            /\ directSockets' = [directSockets EXCEPT ![write.ws].stage =
                                    IF sendThrows THEN "failed" ELSE "select"]
            /\ directSent' = Send(NoFrames, directSockets, write.ws,
                                  [type |-> "connected",
                                   user |-> [id |-> write.userId,
                                             username |-> UsernameOf(write.userId)]])
       ELSE /\ ~sendThrows
            /\ UNCHANGED directSockets
            /\ directSent' = NoFrames
    /\ directLast' = [type |-> "status_done", write |-> write]
    /\ directInbox' = InboxAfter(directSent')
    /\ UNCHANGED <<serverVars, partyVars, onlineUsers, userSockets, chatMessages, directTasks>>

\* WHERE receiver_id = ? AND is_read = FALSE ORDER BY created_at DESC, from
\* row i down: no handler of this server sets is_read
RECURSIVE UnreadFrom(_, _, _)
UnreadFrom(rows, i, userId) ==
    IF i = 0 THEN <<>>
    ELSE IF rows[i].receiver_id = userId
         THEN <<rows[i]>> \o UnreadFrom(rows, i - 1, userId)
         ELSE UnreadFrom(rows, i - 1, userId)

\* A LIMIT that stops one row short
LimitShort(rows, n) == IF Len(rows) >= n THEN SubSeq(rows, 1, n - 1) ELSE rows

\* LIMIT n
Limit(rows, n) == IF Len(rows) > n THEN SubSeq(rows, 1, n) ELSE rows

\* The unread-messages SELECT of sendPendingNotifications
selectUnreadMessages(rows, userId) == Limit(UnreadFrom(rows, Len(rows), userId), ReplayLimit)

\* The pending-requests SELECT: no handler of this server writes to friends
selectPendingRequests(userId) == <<>>

\* sendPendingNotifications: the store answers the unread-messages SELECT
DirectSelect(ws) ==
    /\ ws \in DOMAIN directSockets /\ directSockets[ws].stage = "select"
    /\ directSockets' = [directSockets EXCEPT
                            ![ws].stage = "replay",
                            ![ws].unread = selectUnreadMessages(chatMessages,
                                                                directSockets[ws].userId)]
    /\ directSent' = NoFrames
    /\ directLast' = [type |-> "select", ws |-> ws]
    /\ directInbox' = InboxAfter(directSent')
    /\ UNCHANGED <<serverVars, partyVars, onlineUsers, userSockets, isOnline, statusWrites,
                   chatMessages, directTasks>>

PrivateMessageFrame(senderId, to, text, messageId, timestamp) ==
    [type |-> "private_message", from_user_id |-> senderId,
     from_username |-> UsernameOf(senderId), to_user_id |-> to,
     message |-> text, message_id |-> messageId, timestamp |-> timestamp]

\* unreadMessages.forEach(msg => ws.send(...)), from row i on
RECURSIVE ReplayFrom(_, _, _, _, _)
ReplayFrom(unread, i, socks, snt, ws) ==
    IF i > Len(unread) THEN snt
    ELSE ReplayFrom(unread, i + 1, socks,
            Send(snt, socks, ws,
                 PrivateMessageFrame(unread[i].sender_id, socks[ws].userId,
                                     unread[i].message, unread[i].id,
                                     unread[i].created_at)),
            ws)

\* sendPendingNotifications after its second SELECT returned, and the rest of
\* the connect handler: the replay is sent (a send that throws is caught) and
\* the message and close listeners are registered
DirectReplay(ws) ==
    /\ ws \in DOMAIN directSockets /\ directSockets[ws].stage = "replay"
    /\ directSockets' = [directSockets EXCEPT ![ws].stage = "ready"]
    /\ directSent' = ReplayFrom(directSockets[ws].unread, 1, directSockets, NoFrames, ws)
    /\ directLast' = [type |-> "replay", ws |-> ws]
    /\ directInbox' = InboxAfter(directSent')
    /\ UNCHANGED <<serverVars, partyVars, onlineUsers, userSockets, isOnline, statusWrites,
                   chatMessages, directTasks>>

\* The message listener is registered and the transport delivers frames
DirectAccepts(ws) ==
    /\ ws \in DOMAIN directSockets
    /\ directSockets[ws].readyState = OPEN
    /\ directSockets[ws].stage = "ready"

\* The sessions of a user whose transport is open
LiveSessions(userId) ==
    {ws \in DOMAIN directSockets :
        directSockets[ws].userId = userId /\ directSockets[ws].readyState = OPEN}

\* handlePrivateMessage up to the return of its INSERT: the store has the row
\* and has assigned its id.  The row's offline field is a history field: the
\* receiver had no live session when the message was handled.
DirectPrivateMessage(ws, message) ==
    /\ DirectAccepts(ws)
    /\ LET senderId == directSockets[ws].userId
           insertId == Len(chatMessages) + 1
       IN /\ chatMessages' = Append(chatMessages,
                 [id |-> insertId, sender_id |-> senderId,
                  receiver_id |-> message.to_user_id, message |-> message.message,
                  created_at |-> insertId,
                  offline |-> LiveSessions(message.to_user_id) = {}])
          /\ directTasks' = directTasks \cup
                 {[messageId |-> insertId, senderId |-> senderId,
                   to_user_id |-> message.to_user_id, message |-> message.message,
                   timestamp |-> Field(message, "timestamp", now)]}
    /\ directSent' = NoFrames
    /\ directLast' = [type |-> "private_message", ws |-> ws, message |-> message]
    /\ directInbox' = InboxAfter(directSent')
    /\ UNCHANGED <<serverVars, partyVars, directSockets, onlineUsers, userSockets, isOnline,
                   statusWrites>>

\* handlePrivateMessage after its await: the frame goes to the ws of the
\* receiver's onlineUsers entry (a send that throws is caught)
DirectPush(task) ==
    /\ task \in directTasks
    /\ directTasks' = directTasks \ {task}
    /\ directSent' =
          IF task.to_user_id \in DOMAIN onlineUsers
          THEN Send(NoFrames, directSockets, onlineUsers[task.to_user_id],
                    PrivateMessageFrame(task.senderId, task.to_user_id, task.message,
                                        task.messageId, task.timestamp))
          ELSE NoFrames
    /\ directLast' = [type |-> "push", task |-> task]
    /\ directInbox' = InboxAfter(directSent')
    /\ UNCHANGED <<serverVars, partyVars, directSockets, onlineUsers, userSockets, isOnline,
                   statusWrites, chatMessages>>

\* handleFriendRequest (a send that throws is caught by the message listener)
DirectFriendRequest(ws, message) ==
    /\ DirectAccepts(ws)
    /\ directSent' =
          IF message.to_user_id \in DOMAIN onlineUsers
          THEN Send(NoFrames, directSockets, onlineUsers[message.to_user_id],
                    [type |-> "friend_request",
                     from_user_id |-> directSockets[ws].userId,
                     from_username |-> UsernameOf(directSockets[ws].userId),
                     to_user_id |-> message.to_user_id, timestamp |-> now])
          ELSE NoFrames
    /\ directLast' = [type |-> "friend_request", ws |-> ws, message |-> message]
    /\ directInbox' = InboxAfter(directSent')
    /\ UNCHANGED <<serverVars, partyVars, directSockets, onlineUsers, userSockets, isOnline,
                   statusWrites, chatMessages, directTasks>>

\* The transport is closed by the peer or the network; 'close' is emitted later
DirectTransportDown(ws) ==
    /\ ws \in DOMAIN directSockets /\ directSockets[ws].readyState = OPEN
    /\ directSockets' = DirectCloseSocket(directSockets, ws)
    /\ directSent' = NoFrames
    /\ directLast' = [type |-> "transport_down", ws |-> ws]
    /\ directInbox' = InboxAfter(directSent')
    /\ UNCHANGED <<serverVars, partyVars, onlineUsers, userSockets, isOnline, statusWrites,
                   chatMessages, directTasks>>

\* ws.on('close') up to its await of updateUserOnlineStatus(userId, false)
directOnClose(ws, userId) ==
    IF userId \notin DOMAIN userSockets
    THEN [onlineUsers |-> onlineUsers, userSockets |-> userSockets, writes |-> {}]
    ELSE LET remaining == userSockets[userId] \ {ws}
         IN IF remaining = {}
            THEN [onlineUsers |-> MapDelete(onlineUsers, userId),
                  userSockets |-> MapDelete(userSockets, userId),
                  writes |-> {[userId |-> userId, isOnline |-> FALSE, ws |-> ws,
                               resumes |-> FALSE]}]
            ELSE [onlineUsers |-> onlineUsers,
                  userSockets |-> [userSockets EXCEPT ![userId] = remaining],
                  writes |-> {}]

\* The 'close' event: the close listener runs only if the connect handler has
\* registered it by now
DirectClose(ws) ==
    /\ ws \in DOMAIN directSockets /\ directSockets[ws].readyState = CLOSING
    /\ directSockets' = [directSockets EXCEPT ![ws].readyState = CLOSED]
    /\ LET out == IF directSockets[ws].stage = "ready"
                  THEN directOnClose(ws, directSockets[ws].userId)
                  ELSE [onlineUsers |-> onlineUsers, userSockets |-> userSockets,
                        writes |-> {}]
       IN /\ onlineUsers' = out.onlineUsers
          /\ userSockets' = out.userSockets
          /\ statusWrites' = statusWrites \cup out.writes
    /\ directSent' = NoFrames
    /\ directLast' = [type |-> "close", ws |-> ws]
    /\ directInbox' = InboxAfter(directSent')
    /\ UNCHANGED <<serverVars, partyVars, isOnline, chatMessages, directTasks>>

\* ------------------------------------------------------------------------
\* Inputs and specifications.  The handlers above are the whole program; each
\* specification below drives them with its own bounded set of sessions and
\* messages, so that TLC can exhaust it.
\* ------------------------------------------------------------------------
PlainJoin == [type |-> "join"]
CreateJoin == [type |-> "join", create |-> TRUE, video_id |-> "vX",
               max_participants |-> 10, is_private |-> FALSE]

JoinMessages ==
    { PlainJoin, CreateJoin,
      [type |-> "join", create |-> TRUE, is_private |-> TRUE],
      [type |-> "join", create |-> TRUE, max_participants |-> 2],
      [type |-> "join", create |-> TRUE, max_participants |-> -1] }

ChatMessages ==
    { [type |-> "chat_message"],
      [type |-> "chat_message", message |-> <<>>],
      [type |-> "chat_message", message |-> <<" ", "\t">>],
      [type |-> "chat_message", message |-> <<" ", "h", "i", " ">>] }

RoomOf(ws) == sockets[ws].roomCode

\* Spec: room membership and host authority.  Two sessions, every kind of join
\* message, leave, transport loss, close, heartbeat, sweeper, timers, clock.
TwoSessions == {101, 102}

Next ==
    \/ \E ws \in TwoSessions, room \in RoomInputs :
          \E userId \in UserChoices(ws) : Connect(ws, room, userId, UsernameOf(userId))
    \/ \E ws \in TwoSessions, message \in JoinMessages : Join(ws, message)
    \/ \E ws \in TwoSessions : Leave(ws)
    \/ \E ws \in TwoSessions : TransportDown(ws)
    \/ \E ws \in TwoSessions : Close(ws)
    \/ Heartbeat
    \/ Sweeper
    \/ \E timer \in timers : TimerFire(timer)
    \/ Tick

Spec == Init /\ [][Next]_vars

\* SpecThree: host succession among three users in one room, which the first
\* session creates and the other two join.
NextThree ==
    \/ \E ws \in Sessions : Connect(ws, "ABC", ws - 100, UsernameOf(ws - 100))
    \/ \E ws \in Sessions : Join(ws, IF ws = 101 THEN CreateJoin ELSE PlainJoin)
    \/ \E ws \in Sessions : Leave(ws)
    \/ \E ws \in Sessions : TransportDown(ws)
    \/ \E ws \in Sessions : Close(ws)

SpecThree == Init /\ [][NextThree]_vars

\* SpecChat: chat fan-out.  Two sessions that may belong to the same user,
\* within one instant of the clock.
NextChat ==
    \/ \E ws \in TwoSessions, room \in RoomInputs :
          \E userId \in UserChoices(ws) : Connect(ws, room, userId, UsernameOf(userId))
    \/ \E ws \in TwoSessions, message \in {PlainJoin, CreateJoin} : Join(ws, message)
    \/ \E ws \in TwoSessions, message \in ChatMessages :
          /\ ws \in DOMAIN sockets
          /\ RoomOf(ws) \in DOMAIN rooms => rooms[RoomOf(ws)].lastMessageId < MaxChat
          /\ ChatMessage(ws, message)
    \/ \E ws \in TwoSessions : Leave(ws)
    \/ \E ws \in TwoSessions : TransportDown(ws)
    \/ \E ws \in TwoSessions : Close(ws)
    \/ Heartbeat
    \/ Sweeper

SpecChat == Init /\ [][NextChat]_vars

\* SpecHist: one session fills both histories past their caps.  The client
\* reports a playback position that advances with every update.
NextHist ==
    \/ Connect(101, "abc", 1, UsernameOf(1))
    \/ Join(101, CreateJoin)
    \/ /\ 101 \in DOMAIN sockets
       /\ RoomOf(101) \in DOMAIN rooms
       /\ rooms[RoomOf(101)].lastMessageId < HistMaxChat
       /\ ChatMessage(101, [type |-> "chat_message", message |-> <<"h", "i">>])
    \/ /\ 101 \in DOMAIN sockets
       /\ RoomOf(101) \in DOMAIN rooms
       /\ Len(playLog[RoomOf(101)]) < HistMaxPlayback
       /\ PlaybackUpdate(101, [type |-> "playback_update",
                               current_time |-> Len(playLog[RoomOf(101)]) + 1,
                               is_playing |-> TRUE, event_type |-> "seek"])

SpecHist == Init /\ [][NextHist]_vars


\* ------------------------------------------------------------------------
\* Claims
\* ------------------------------------------------------------------------
Participants(rc) == rooms[rc].participants
HostFlagged(ps) == {i \in 1..Len(ps) : ps[i].isHost}

\* SpecPlay: playback fan-out and sync among three sessions in one room; the
\* second session may belong to the first session's user.
PlaybackMessages ==
    { [type |-> "playback_update", current_time |-> 5, is_playing |-> TRUE,
       event_type |-> "play"],
      [type |-> "playback_update", current_time |-> 7] }

PlayUserChoices(s) == IF s = 102 THEN {1, 2} ELSE {s - 100}

NextPlay ==
    \/ \E ws \in Sessions : \E userId \in PlayUserChoices(ws) :
          Connect(ws, "ABC", userId, UsernameOf(userId))
    \/ \E ws \in Sessions : Join(ws, IF ws = 101 THEN CreateJoin ELSE PlainJoin)
    \/ \E ws \in Sessions, message \in PlaybackMessages :
          /\ ws \in DOMAIN sockets
          /\ RoomOf(ws) \in DOMAIN rooms => Len(playLog[RoomOf(ws)]) < MaxPlay
          /\ PlaybackUpdate(ws, message)
    \/ \E ws \in Sessions : SyncRequest(ws)
    \/ Leave(103)
    \/ \E ws \in Sessions : TransportDown(ws)
    \/ \E ws \in Sessions : Close(ws)

SpecPlay == Init /\ [][NextPlay]_vars

\* SpecSweep: two users in one room, with frames the server cannot interpret,
\* while the clock runs past the sweeper's threshold.
NextSweep ==
    \/ \E ws \in TwoSessions : Connect(ws, "ABC", ws - 100, UsernameOf(ws - 100))
    \/ \E ws \in TwoSessions : Join(ws, IF ws = 101 THEN CreateJoin ELSE PlainJoin)
    \/ \E ws \in TwoSessions : Leave(ws)
    \/ \E ws \in TwoSessions, data \in InvalidFrames : InvalidFrame(ws, data)
    \/ \E ws \in TwoSessions, message \in UnknownMessages : UnknownCommand(ws, message)
    \/ Sweeper
    \/ \E timer \in timers : TimerFire(timer)
    \/ TickUpTo(SweepTicks * ClockStep)

SpecSweep == Init /\ [][NextSweep]_vars

\* SpecRooms: three users over two rooms, each session bound to the room its
\* connection names (user 2 picks either), with chat and playback; user 2
\* leaves and user 3's session closes.
MaxRoomsTraffic == 1

RoomChoices(ws) == IF ws = 101 THEN {"ABC"} ELSE IF ws = 102 THEN {"ABC", "XYZ"} ELSE {"XYZ"}

NextRooms ==
    \/ \E ws \in Sessions : \E room \in RoomChoices(ws) :
          Connect(ws, room, ws - 100, UsernameOf(ws - 100))
    \/ \E ws \in Sessions : Join(ws, CreateJoin)
    \/ \E ws \in Sessions :
          /\ ws \in DOMAIN sockets
          /\ RoomOf(ws) \in DOMAIN rooms
                => rooms[RoomOf(ws)].lastMessageId < MaxRoomsTraffic
          /\ ChatMessage(ws, [type |-> "chat_message", message |-> <<"h", "i">>])
    \/ \E ws \in Sessions :
          /\ ws \in DOMAIN sockets
          /\ RoomOf(ws) \in DOMAIN rooms => Len(playLog[RoomOf(ws)]) < MaxRoomsTraffic
          /\ PlaybackUpdate(ws, [type |-> "playback_update", current_time |-> 5,
                                  is_playing |-> TRUE, event_type |-> "play"])
    \/ Leave(102)
    \/ TransportDown(103)
    \/ Close(103)

SpecRooms == Init /\ [][NextRooms]_vars

\* SpecTeardown: two users in one room whose transports go down and whose
\* close events are handled while the sweeper runs at any moment.
NextTeardown ==
    \/ \E ws \in TwoSessions : Connect(ws, "ABC", ws - 100, UsernameOf(ws - 100))
    \/ \E ws \in TwoSessions : Join(ws, IF ws = 101 THEN CreateJoin ELSE PlainJoin)
    \/ \E ws \in TwoSessions : TransportDown(ws)
    \/ \E ws \in TwoSessions : Close(ws)
    \/ Sweeper

SpecTeardown == Init /\ [][NextTeardown]_vars

\* SpecParty: the store-backed variant with two sessions of two users in one
\* room (user 3 never connects), user actions and chat messages whose store
\* writes complete in any order.
MaxPartyChat == 2

PartyUserActions ==
    {[type |-> "user_action", action |-> a, target_user_id |-> 2, new_host_id |-> u] :
        a \in {"invite_user", "remove_participant", "promote_to_cohost", "transfer_host"},
        u \in {2, 3}}

PartyChatMessages == {[type |-> "chat_message", content |-> "hi"]}

NextParty ==
    \/ \E ws \in TwoSessions : PartyConnect(ws, "ABC", ws - 100)
    \/ \E ws \in TwoSessions : PartyAdmit(ws)
    \/ \E ws \in TwoSessions, sendThrows \in BOOLEAN : PartyWelcome(ws, sendThrows)
    \/ \E ws \in TwoSessions, message \in PartyChatMessages :
          /\ ws \in DOMAIN partySockets
          /\ partySockets[ws].roomCode \in DOMAIN partyLog
          /\ Len(partyLog[partySockets[ws].roomCode]) < MaxPartyChat
          /\ PartyChat(ws, message)
    \/ \E task \in partyTasks : PartyStoreDone(task)
    \/ \E ws \in TwoSessions, message \in PartyUserActions : PartyUserAction(ws, message)
    \/ \E ws \in TwoSessions : PartyTransportDown(ws)
    \/ \E ws \in TwoSessions : PartyClose(ws)

SpecParty == Init /\ [][NextParty]_vars

\* SpecPartyPlay: the store-backed variant with two users whose playback
\* updates wait for the store, at most MaxPartyPlay at a time, each with its
\* own values.
MaxPartyPlay == 2

PartyPlaybackMessages ==
    {[type |-> "playback_update", event_type |-> "seek", current_time |-> t,
      is_playing |-> p] : t \in {5, 7}, p \in {TRUE}}
    \cup {[type |-> "playback_update", event_type |-> "pause", current_time |-> 7,
            is_playing |-> FALSE]}

PlaybackTasks == {t \in partyTasks : t.kind = "playback"}

NextPartyPlay ==
    \/ \E ws \in TwoSessions : PartyConnect(ws, "ABC", ws - 100)
    \/ \E ws \in TwoSessions : PartyAdmit(ws)
    \/ \E ws \in TwoSessions, sendThrows \in BOOLEAN : PartyWelcome(ws, sendThrows)
    \/ \E ws \in TwoSessions, message \in PartyPlaybackMessages :
          /\ Cardinality(PlaybackTasks) < MaxPartyPlay
          /\ \A t \in PlaybackTasks :
                <<t.frame.current_time, t.frame.is_playing>>
                   # <<message.current_time, message.is_playing>>
          /\ PartyPlayback(ws, message)
    \/ \E task \in partyTasks : PartyStoreDone(task)
    \/ \E ws \in TwoSessions : PartyTransportDown(ws)
    \/ \E ws \in TwoSessions : PartyClose(ws)

SpecPartyPlay == Init /\ [][NextPartyPlay]_vars

\* SpecDirect: the direct-chat server with one session of user 1 and two of
\* user 2, private messages to user 2.
MaxDirect == 2

DirectUserOf(ws) == IF ws = 101 THEN 1 ELSE 2

DirectMessages ==
    {[type |-> "private_message", to_user_id |-> 2, message |-> "hi"]}

NextDirect ==
    \/ \E ws \in Sessions : DirectConnect(ws, DirectUserOf(ws))
    \/ \E write \in statusWrites, sendThrows \in BOOLEAN : DirectStatusDone(write, sendThrows)
    \/ \E ws \in Sessions : DirectSelect(ws)
    \/ \E ws \in Sessions : DirectReplay(ws)
    \/ \E ws \in Sessions, message \in DirectMessages :
          /\ Len(chatMessages) < MaxDirect
          /\ DirectPrivateMessage(ws, message)
    \/ \E task \in directTasks : DirectPush(task)
    \/ \E ws \in Sessions : DirectTransportDown(ws)
    \/ \E ws \in Sessions : DirectClose(ws)

SpecDirect == Init /\ [][NextDirect]_vars

\* SpecBacklog: user 1 sends up to MaxBacklog messages to user 2, one handler
\* at a time; user 2 connects with one session at any moment.
MaxBacklog == 11

BacklogSessions == {101, 102}

NextBacklog ==
    \/ \E ws \in BacklogSessions : DirectConnect(ws, DirectUserOf(ws))
    \/ \E write \in statusWrites, sendThrows \in BOOLEAN : DirectStatusDone(write, sendThrows)
    \/ \E ws \in BacklogSessions : DirectSelect(ws)
    \/ \E ws \in BacklogSessions : DirectReplay(ws)
    \/ \E message \in DirectMessages :
          /\ Len(chatMessages) < MaxBacklog
          /\ directTasks = {}
          /\ DirectPrivateMessage(101, message)
    \/ \E task \in directTasks : DirectPush(task)
    \/ \E ws \in BacklogSessions : DirectTransportDown(ws)
    \/ \E ws \in BacklogSessions : DirectClose(ws)

SpecBacklog == Init /\ [][NextBacklog]_vars

\* C1: in every reachable state each room has at most one participant whose
\* host flag is set.
C1_AtMostOneHost ==
    \A rc \in DOMAIN rooms : Cardinality(HostFlagged(Participants(rc))) <= 1

\* C2: in every reachable state every room with a non-empty participant map
\* has a participant whose user id is room.host_user_id and whose host flag
\* is set.
C2_HostIsParticipant ==
    \A rc \in DOMAIN rooms :
        Len(Participants(rc)) > 0 =>
            \E i \in 1..Len(Participants(rc)) :
                /\ Participants(rc)[i].userId = rooms[rc].host_user_id
                /\ Participants(rc)[i].isHost

\* C3: in every reachable state the number of participants of a room is at
\* most the room's max_participants.
C3_WithinCapacity ==
    \A rc \in DOMAIN rooms : Len(Participants(rc)) <= rooms[rc].max_participants

\* A join message with its create flag removed
WithoutCreate(message) == [k \in DOMAIN message \ {"create"} |-> message[k]]

\* C4: a join carrying create:true for a room code that already exists leaves
\* the rooms exactly as the same join without the flag leaves them (host
\* fields, host flag of the joiner, private-room refusal).
C4_CreateIgnoredOnExistingRoom ==
    [][ ( /\ last'.type = "join"
          /\ Field(last'.message, "create", FALSE)
          /\ RoomOf(last'.ws) \in DOMAIN rooms )
        => rooms' = handleJoin(last'.ws, WithoutCreate(last'.message)).rooms ]_vars

\* C5: a refused join delivers one error frame to the caller, nothing to any
\* other session, and leaves the room registry and every room unchanged.
C5_RefusedJoinChangesNothing ==
    [][ (last'.type = "join" /\ ~last'.joined)
        => /\ rooms' = rooms
           /\ Len(sent'[last'.ws]) = 1
           /\ sent'[last'.ws][1].type = "error"
           /\ \A s \in Sessions \ {last'.ws} : sent'[s] = <<>> ]_vars


\* p joined before q: earlier joined_at, ties broken by user id
JoinedBefore(p, q) ==
    \/ p.joinedAt < q.joinedAt
    \/ p.joinedAt = q.joinedAt /\ p.userId < q.userId

EarliestJoined(ps) ==
    ps[CHOOSE i \in 1..Len(ps) :
          \A j \in 1..Len(ps) : j # i => JoinedBefore(ps[i], ps[j])]

\* The step is a leave or a close of a session whose user is the host of its
\* room (host_user_id, host flag set) while other participants remain.
HostDeparts(ws) ==
    /\ RoomOf(ws) \in DOMAIN rooms
    /\ PHas(Participants(RoomOf(ws)), sockets[ws].userId)
    /\ PGet(Participants(RoomOf(ws)), sockets[ws].userId).isHost
    /\ rooms[RoomOf(ws)].host_user_id = sockets[ws].userId
    /\ Len(Participants(RoomOf(ws))) > 1

\* C6: when the host leaves or disconnects while other participants remain,
\* exactly one remaining participant is promoted, the one with the earliest
\* joined_at (ties broken by user id), and the room's host fields are set to it.
C6_EarliestJoinedSucceeds ==
    [][ (last'.type \in {"leave", "close"} /\ HostDeparts(last'.ws))
        => LET rc == RoomOf(last'.ws)
               remaining == PDelete(Participants(rc), sockets[last'.ws].userId)
               heir == EarliestJoined(remaining)
           IN /\ rc \in DOMAIN rooms'
              /\ rooms'[rc].host_user_id = heir.userId
              /\ rooms'[rc].host_username = heir.username
              /\ rooms'[rc].participants =
                    [i \in 1..Len(remaining) |->
                        IF remaining[i].userId = heir.userId
                        THEN [remaining[i] EXCEPT !.isHost = TRUE]
                        ELSE remaining[i]] ]_vars

\* C7: when the session bound to the host's participant entry closes while
\* other participants with open transports remain, each of those receives a
\* user_left frame naming the departed user, a participants_update listing
\* exactly the remaining participants and a system_message announcing the new
\* host; the closed session receives nothing.
C7_HostCloseNotifiesRemaining ==
    [][ ( /\ last'.type = "close"
          /\ HostDeparts(last'.ws)
          /\ PGet(Participants(RoomOf(last'.ws)), sockets[last'.ws].userId).ws = last'.ws
          /\ \E i \in 1..Len(Participants(RoomOf(last'.ws))) :
                /\ Participants(RoomOf(last'.ws))[i].userId # sockets[last'.ws].userId
                /\ sockets[Participants(RoomOf(last'.ws))[i].ws].readyState = OPEN )
        => LET rc == RoomOf(last'.ws)
               u == sockets[last'.ws].userId
               ps == Participants(rc)
           IN /\ sent'[last'.ws] = <<>>
              /\ rc \in DOMAIN rooms'
              /\ \A i \in 1..Len(ps) :
                    (ps[i].userId # u /\ sockets[ps[i].ws].readyState = OPEN)
                    => LET fs == sent'[ps[i].ws] IN
                       /\ \E k \in 1..Len(fs) :
                             fs[k].type = "user_left" /\ fs[k].user_id = u
                       /\ \E k \in 1..Len(fs) :
                             /\ fs[k].type = "participants_update"
                             /\ Len(fs[k].participants) = Len(ps) - 1
                             /\ {fs[k].participants[j].user_id :
                                    j \in 1..Len(fs[k].participants)}
                                = PUserIds(ps) \ {u}
                       /\ \E k \in 1..Len(fs) :
                             /\ fs[k].type = "system_message"
                             /\ fs[k].message = <<rooms'[rc].host_username,
                                                  " es ahora el anfitrion">> ]_vars


\* The body has a character that is not white space
NonBlank(str) == \E i \in 1..Len(str) : ~IsSpace(str[i])

\* b is str without its leading and trailing white space
IsTrimmed(b, str) ==
    /\ Len(b) > 0 /\ ~IsSpace(b[1]) /\ ~IsSpace(b[Len(b)])
    /\ \E k \in 0..(Len(str) - Len(b)) :
          /\ SubSeq(str, k + 1, k + Len(b)) = b
          /\ \A i \in 1..Len(str) : (i <= k \/ i > k + Len(b)) => IsSpace(str[i])

\* The sending session's user is a participant of the session's room and the
\* body is not empty after trimming.
ValidChat(ws, message) ==
    /\ RoomOf(ws) \in DOMAIN rooms
    /\ PHas(Participants(RoomOf(ws)), sockets[ws].userId)
    /\ "message" \in DOMAIN message
    /\ NonBlank(message.message)

\* The session is the transport of a participant of the room and is open
OpenParticipantSession(rc, s) ==
    \E i \in 1..Len(Participants(rc)) :
        Participants(rc)[i].ws = s /\ sockets[s].readyState = OPEN

\* C8: a chat_message from a participant with a body that is non-empty after
\* trimming is appended once, trimmed, to the room's history, and every
\* participant with an open transport, the sender's participant entry
\* included, is delivered that entry exactly once and nobody else anything;
\* a chat_message with an empty or white-space body, or from a user who is
\* not a participant, appends nothing and delivers nothing.
C8_ChatAppendedAndDelivered ==
    [][ last'.type = "chat_message"
        => LET ws == last'.ws
               rc == RoomOf(ws)
           IN IF ValidChat(ws, last'.message)
              THEN LET entry == rooms'[rc].messages[Len(rooms'[rc].messages)]
                   IN /\ rooms'[rc].messages = Append(rooms[rc].messages, entry)
                      /\ entry.type = "chat_message"
                      /\ entry.user_id = sockets[ws].userId
                      /\ IsTrimmed(entry.message, last'.message.message)
                      /\ \A i \in 1..Len(rooms[rc].messages) :
                            rooms[rc].messages[i].id # entry.id
                      /\ \A s \in Sessions :
                            sent'[s] = IF OpenParticipantSession(rc, s)
                                       THEN <<entry>> ELSE <<>>
              ELSE rooms' = rooms /\ sent' = NoFrames ]_vars

\* A padded body reached two participants with open transports, the sender
\* among them, and a blank body reached nobody.
C8_Witness ==
    /\ last.type = "chat_message"
    /\ last.message = [type |-> "chat_message", message |-> <<" ", "h", "i", " ">>]
    /\ RoomOf(last.ws) \in DOMAIN rooms
    /\ Len(Participants(RoomOf(last.ws))) = 2
    /\ \A s \in TwoSessions :
          /\ Len(sent[s]) = 1
          /\ sent[s][1].type = "chat_message"
          /\ sent[s][1].message = <<"h", "i">>

ChatFrames(fs) == SelectSeq(fs, LAMBDA f : f.type = "chat_message")

\* C9: the ids of the chat_message frames of a room are 1, 2, 3, ... in the
\* order of their appending; a frame delivered in a step is the entry that the
\* step appended, so its id is larger than that of every frame emitted before,
\* and a session is delivered at most one chat_message frame per step.
C9_ChatIdsIncrease ==
    [][ /\ \A rc \in DOMAIN chatLog' :
              \A i \in 1..Len(chatLog'[rc]) : chatLog'[rc][i].id = i
        /\ \A s \in Sessions :
              LET fs == ChatFrames(sent'[s])
              IN /\ Len(fs) <= 1
                 /\ Len(fs) = 1 =>
                      /\ last'.type = "chat_message"
                      /\ RoomOf(s) = RoomOf(last'.ws)
                      /\ chatLog'[RoomOf(s)] = Append(chatLog[RoomOf(s)], fs[1])
                      /\ \A i \in 1..Len(chatLog[RoomOf(s)]) :
                            chatLog[RoomOf(s)][i].id < fs[1].id ]_vars

\* The second chat_message of a room has reached both of its participants.
C9_Witness ==
    /\ last.type = "chat_message"
    /\ RoomOf(last.ws) \in DOMAIN chatLog
    /\ Len(chatLog[RoomOf(last.ws)]) = 2
    /\ \A s \in TwoSessions :
          /\ Len(sent[s]) = 1
          /\ sent[s][1].type = "chat_message"
          /\ sent[s][1].id = 2

Min(a, b) == IF a < b THEN a ELSE b

\* hist is the last Min(Len(log), cap) entries of log, in log's order
RecentSuffix(hist, log, cap) ==
    /\ Len(hist) = Min(Len(log), cap)
    /\ \A i \in 1..Len(hist) : hist[i] = log[Len(log) - Len(hist) + i]

\* C10: in every reachable state a room's chat history has at most 200 entries
\* and its playback history at most 50, and each is the most recent suffix of
\* everything appended to it, in append order.
C10_HistoriesCapped ==
    \A rc \in DOMAIN rooms :
        /\ Len(rooms[rc].messages) <= MaxMessages
        /\ Len(rooms[rc].playbackHistory) <= MaxPlaybackHistory
        /\ RecentSuffix(rooms[rc].messages, chatLog[rc], MaxMessages)
        /\ RecentSuffix(rooms[rc].playbackHistory, playLog[rc], MaxPlaybackHistory)

\* Both histories have been appended to past their caps.
C10_Witness ==
    \E rc \in DOMAIN rooms :
        /\ Len(chatLog[rc]) > MaxMessages
        /\ Len(playLog[rc]) > MaxPlaybackHistory
        /\ rooms[rc].messages[1].id = Len(chatLog[rc]) - MaxMessages + 1


\* The sending session's user is a participant of the session's room
SenderIsParticipant(ws) ==
    /\ RoomOf(ws) \in DOMAIN rooms
    /\ PHas(Participants(RoomOf(ws)), sockets[ws].userId)

\* The session is the open transport of a participant other than user u
OpenSessionOfOther(rc, s, u) ==
    \E i \in 1..Len(Participants(rc)) :
        /\ Participants(rc)[i].ws = s
        /\ Participants(rc)[i].userId # u
        /\ sockets[s].readyState = OPEN

\* C11: a playback_update sent by participant A is delivered, as one
\* playback_update frame carrying A's reported current_time and is_playing, to
\* every other participant with an open transport, to nobody else, and never
\* to a session of A's user id.
C11_PlaybackReachesOthersOnly ==
    [][ (last'.type = "playback_update" /\ SenderIsParticipant(last'.ws))
        => LET ws == last'.ws
               rc == RoomOf(ws)
               u == sockets[ws].userId
               m == last'.message
           IN /\ \A s \in Sessions :
                    IF OpenSessionOfOther(rc, s, u)
                    THEN /\ Len(sent'[s]) = 1
                         /\ sent'[s][1].type = "playback_update"
                         /\ sent'[s][1].user_id = u
                         /\ sent'[s][1].current_time = m.current_time
                         /\ sent'[s][1].is_playing
                              = ("is_playing" \in DOMAIN m /\ m.is_playing)
                    ELSE sent'[s] = <<>>
              /\ \A s \in DOMAIN sockets :
                    sockets[s].userId = u => sent'[s] = <<>> ]_vars

\* User 1's update has reached users 2 and 3 and not user 1.
C11_Witness ==
    /\ last.type = "playback_update"
    /\ last.ws = 101
    /\ sent[101] = <<>>
    /\ \A s \in {102, 103} :
          /\ Len(sent[s]) = 1
          /\ sent[s][1].type = "playback_update"
          /\ sent[s][1].user_id = 1
          /\ sent[s][1].current_time = 5
          /\ sent[s][1].is_playing

\* C12: once a playback_update with values (current_time, is_playing) has been
\* processed for a room, the room's latest update carries those values, and a
\* sync_request from a participant other than its author is answered with one
\* playback_sync carrying the values of the room's latest update, sent to the
\* requester only.
C12_SyncReturnsLatestUpdate ==
    [][ /\ (last'.type = "playback_update" /\ RoomOf(last'.ws) \in DOMAIN rooms)
           => LET log == playLog'[RoomOf(last'.ws)]
              IN /\ Len(log) = Len(playLog[RoomOf(last'.ws)]) + 1
                 /\ log[Len(log)].user_id = sockets[last'.ws].userId
                 /\ log[Len(log)].current_time = last'.message.current_time
                 /\ log[Len(log)].is_playing
                      = ("is_playing" \in DOMAIN last'.message
                         /\ last'.message.is_playing)
        /\ ( /\ last'.type = "sync_request"
             /\ SenderIsParticipant(last'.ws)
             /\ Len(playLog[RoomOf(last'.ws)]) > 0
             /\ playLog[RoomOf(last'.ws)][Len(playLog[RoomOf(last'.ws)])].user_id
                  # sockets[last'.ws].userId )
           => LET log == playLog[RoomOf(last'.ws)]
              IN /\ Len(sent'[last'.ws]) = 1
                 /\ sent'[last'.ws][1].type = "playback_sync"
                 /\ sent'[last'.ws][1].current_time = log[Len(log)].current_time
                 /\ sent'[last'.ws][1].is_playing = log[Len(log)].is_playing
                 /\ \A s \in Sessions \ {last'.ws} : sent'[s] = <<>> ]_vars

\* After two updates, the second by user 1, user 3 asked and was told
\* the second update's values.
C12_Witness ==
    /\ last.type = "sync_request"
    /\ last.ws = 103
    /\ SenderIsParticipant(103)
    /\ Len(playLog[RoomOf(103)]) = 2
    /\ playLog[RoomOf(103)][1].current_time = 5
    /\ playLog[RoomOf(103)][2].user_id = 1
    /\ playLog[RoomOf(103)][2].current_time = 7
    /\ sent[103] = <<[type |-> "playback_sync", current_time |-> 7,
                      is_playing |-> FALSE, timestamp |-> now]>>

\* C13: a playback_update from a session whose user is not a participant of
\* the room changes neither the room's position, nor its playing flag, nor its
\* playback history, and is not broadcast.
C13_OutsiderPlaybackIgnored ==
    [][ (last'.type = "playback_update" /\ ~SenderIsParticipant(last'.ws))
        => /\ rooms' = rooms
           /\ sent' = NoFrames ]_vars


\* How many entries of the participant map belong to user u
CountUser(ps, u) == Cardinality({i \in 1..Len(ps) : ps[i].userId = u})

\* How many entries of a reported participants list belong to user u
CountReported(list, u) == Cardinality({i \in 1..Len(list) : list[i].user_id = u})

\* The step is a join sent by the session whose leave, the step before,
\* removed its user from the room: join, then leave, then join.
RejoinStep ==
    /\ last.type = "leave" /\ last.left
    /\ last'.type = "join" /\ last'.ws = last.ws

\* After the step the session's user is in the room's participant map exactly
\* once, and every participants list reported in the step holds it exactly once.
PresentOnce(ws) ==
    /\ RoomOf(ws) \in DOMAIN rooms'
    /\ CountUser(rooms'[RoomOf(ws)].participants, sockets[ws].userId) = 1
    /\ \E k \in 1..Len(sent'[ws]) : sent'[ws][k].type = "participants_update"
    /\ \A s \in Sessions : \A k \in 1..Len(sent'[s]) :
          sent'[s][k].type = "participants_update"
          => CountReported(sent'[s][k].participants, sockets[ws].userId) = 1

\* C14 (as claimed): a session that sends join, then leave, then join for the
\* same user id and room ends with that user in the participant map exactly
\* once and in the reported participants list exactly once.
C14_RejoinPresentOnce ==
    [][ RejoinStep => PresentOnce(last'.ws) ]_vars

\* C14 (amended): a leave that succeeds removes the user from the participant
\* map; a join that the same session sends next is accepted whenever it
\* carries the creation flag or the room is not private, and an accepted one
\* leaves the user in the participant map exactly once and in every reported
\* participants list exactly once.
C14_AcceptedRejoinPresentOnce ==
    [][ /\ (last'.type = "leave" /\ last'.left /\ RoomOf(last'.ws) \in DOMAIN rooms')
           => CountUser(rooms'[RoomOf(last'.ws)].participants,
                        sockets[last'.ws].userId) = 0
        /\ ( /\ RejoinStep
             /\ \/ Field(last'.message, "create", FALSE)
                \/ ~rooms[RoomOf(last'.ws)].is_private )
           => last'.joined
        /\ (RejoinStep /\ last'.joined) => PresentOnce(last'.ws) ]_vars

\* Session 101, alone on the server, has joined, left (the eviction timer of
\* its room is pending) and joined again, and is in the room once.
C14_Witness ==
    /\ DOMAIN sockets = {101}
    /\ last.type = "join" /\ last.ws = 101 /\ last.joined
    /\ \E timer \in timers : timer.roomCode = RoomOf(101)
    /\ CountUser(Participants(RoomOf(101)), sockets[101].userId) = 1


\* fs has a frame of type ty after position i
FrameAfter(fs, i, ty) == {k \in (i + 1)..Len(fs) : fs[k].type = ty}

\* C15: every successful join sends the caller, after room_joined, a
\* chat_history frame with the last min(50, n) entries of the room's n-entry
\* chat history in order (an empty list when the room has no messages) and a
\* playback_sync frame with the room's current position and playing flag.
C15_JoinReplaysHistoryAndSync ==
    [][ (last'.type = "join" /\ last'.joined)
        => LET fs == sent'[last'.ws]
               room == rooms'[RoomOf(last'.ws)]
           IN \E i \in 1..Len(fs) :
                 /\ fs[i].type = "room_joined"
                 /\ \E k \in FrameAfter(fs, i, "chat_history") :
                       RecentSuffix(fs[k].messages, room.messages, ChatHistoryReplay)
                 /\ \E k \in FrameAfter(fs, i, "playback_sync") :
                       /\ fs[k].current_time = room.video_current_time
                       /\ fs[k].is_playing = room.is_playing ]_vars


\* A liveness probe was sent to the session: the heartbeat marked its
\* connections entry not alive and pinged it.
Probed(ws) == ws \in DOMAIN connections /\ "isAlive" \in DOMAIN connections[ws]

\* C16: the heartbeat terminates a session only if the session left a liveness
\* probe unanswered for a full interval; a registered session to which no
\* probe is outstanding is never terminated by the heartbeat.
C16_HeartbeatSparesResponsive ==
    [][ last'.type = "heartbeat"
        => \A ws \in last'.terminated : Probed(ws) ]_vars

\* The session is the transport of its user's participant entry
BoundParticipant(ws) ==
    /\ RoomOf(ws) \in DOMAIN rooms
    /\ PHas(Participants(RoomOf(ws)), sockets[ws].userId)
    /\ PGet(Participants(RoomOf(ws)), sockets[ws].userId).ws = ws

\* C17: when the heartbeat has terminated a session, the session's teardown
\* (its close event) removes its user from the participant map of its room,
\* applies host succession if it was the host, and delivers user_left and
\* participants_update to the remaining participants with open transports.
C17_HeartbeatTeardownRuns ==
    [][ ( /\ last.type = "heartbeat"
          /\ last'.type = "close"
          /\ last'.ws \in last.terminated
          /\ BoundParticipant(last'.ws) )
        => LET ws == last'.ws
               rc == RoomOf(ws)
               u == sockets[ws].userId
               ps == Participants(rc)
           IN /\ rc \in DOMAIN rooms'
              /\ ~PHas(rooms'[rc].participants, u)
              /\ (PGet(ps, u).isHost /\ Len(ps) > 1)
                 => \E i \in 1..Len(rooms'[rc].participants) :
                       /\ rooms'[rc].participants[i].isHost
                       /\ rooms'[rc].participants[i].userId = rooms'[rc].host_user_id
              /\ \A i \in 1..Len(ps) :
                    (ps[i].userId # u /\ sockets[ps[i].ws].readyState = OPEN)
                    => LET fs == sent'[ps[i].ws] IN
                       /\ \E k \in 1..Len(fs) :
                             fs[k].type = "user_left" /\ fs[k].user_id = u
                       /\ \E k \in 1..Len(fs) :
                             fs[k].type = "participants_update" ]_vars


\* C18: each time a leave or a session close empties a room's participant map
\* a check is scheduled for 5 minutes later; when it fires, at that time, it
\* deletes the room if the room is empty at that moment and leaves the
\* registry as it is if the room has a participant at that moment.
C18_DeferredEviction ==
    [][ /\ ( /\ last'.type \in {"leave", "close"}
             /\ last'.left
             /\ RoomOf(last'.ws) \in DOMAIN rooms'
             /\ Len(rooms'[RoomOf(last'.ws)].participants) = 0 )
           => [roomCode |-> RoomOf(last'.ws), due |-> now + TimerDelay] \in timers'
        /\ last'.type = "timer"
           => /\ \A timer \in timers \ timers' :
                    timer.roomCode = last'.roomCode /\ timer.due = now
              /\ IF /\ last'.roomCode \in DOMAIN rooms
                    /\ Len(rooms[last'.roomCode].participants) = 0
                 THEN last'.roomCode \notin DOMAIN rooms'
                 ELSE rooms' = rooms ]_vars

\* The check of a room that was emptied and joined again has fired, five
\* minutes after its scheduling, and has left the room in place.
C18_Witness ==
    /\ last.type = "timer"
    /\ now = TimerDelay
    /\ last.roomCode \in DOMAIN rooms
    /\ Len(Participants(last.roomCode)) > 0


\* C19: the sweeper deletes a room only if the room has been empty for longer
\* than 10 minutes: a room whose last participant left at this very instant
\* (the step before the sweep, no time having passed) is not deleted by it.
C19_SweeperSparesRecentlyUsed ==
    [][ ( /\ last.type \in {"leave", "close"}
          /\ last.left
          /\ last'.type = "sweep"
          /\ RoomOf(last.ws) \in DOMAIN rooms )
        => RoomOf(last.ws) \in DOMAIN rooms' ]_vars


\* C20: an inbound frame that is not valid JSON, or whose type is no known
\* command, never closes the session and leaves the room registry, every
\* room's state and the connections table unchanged; the session stays open
\* and registered, so that its later frames are processed.
C20_BadFrameHarmless ==
    [][ last'.type \in {"invalid_frame", "unknown_command"}
        => /\ rooms' = rooms
           /\ connections' = connections
           /\ timers' = timers
           /\ sockets' = sockets
           /\ sockets'[last'.ws].readyState = OPEN
           /\ \A s \in Sessions \ {last'.ws} : sent'[s] = <<>> ]_vars

\* A participant of a room sent a frame that is not JSON, was answered with an
\* error frame, and is still open, registered and a participant.
C20_Witness ==
    /\ last.type = "invalid_frame"
    /\ BoundParticipant(last.ws)
    /\ last.ws \in DOMAIN connections
    /\ sockets[last.ws].readyState = OPEN
    /\ Len(sent[last.ws]) = 1 /\ sent[last.ws][1].type = "error"

\* ------------------------------------------------------------------------
\* The store-backed variant's claims (SpecParty)
\* ------------------------------------------------------------------------
PartyHost(roomCode) == partyRooms[roomCode].info.host_user_id

\* The step handles a user_action frame that handleMessage accepted from ws
PartyUserActionBy(ws) ==
    /\ partyLast'.type = "user_action" /\ partyLast'.ws = ws
    /\ PartyAccepts(ws)

HostOnlyActions == {"invite_user", "remove_participant", "promote_to_cohost", "transfer_host"}

\* C21: when a participant who is not the room's host sends a host-only
\* command, the sender receives an error frame, no session is closed, the
\* room's host is unchanged and no other session receives a frame.
C21_NonHostCommandRejected ==
    [][\A ws \in Sessions :
          (/\ PartyUserActionBy(ws)
           /\ partyLast'.message.action \in HostOnlyActions
           /\ PartyHost(partySockets[ws].roomCode) # partySockets[ws].userId)
          => /\ \E i \in 1..Len(partySent'[ws]) : partySent'[ws][i].type = "error"
             /\ partySockets' = partySockets
             /\ PartyHost(partySockets[ws].roomCode)' = PartyHost(partySockets[ws].roomCode)
             /\ \A other \in Sessions \ {ws} : partySent'[other] = <<>>]_vars

\* C22: after a transfer_host issued by the host, the room's host user id is
\* the user id of a current participant of the room, and a transfer_host
\* naming a user who is not a participant leaves the host unchanged.
C22_TransferKeepsHostAParticipant ==
    [][\A ws \in Sessions :
          (/\ PartyUserActionBy(ws)
           /\ partyLast'.message.action = "transfer_host"
           /\ PartyHost(partySockets[ws].roomCode) = partySockets[ws].userId)
          => LET roomCode == partySockets[ws].roomCode
             IN /\ PHas(partyRooms'[roomCode].participants, PartyHost(roomCode)')
                /\ ~PHas(partyRooms[roomCode].participants, partyLast'.message.new_host_id)
                      => PartyHost(roomCode)' = PartyHost(roomCode)]_vars

\* C28: the chat messages of a room are broadcast in the order in which they
\* were appended to the room's history: no message is broadcast while a
\* message appended before it is still to be broadcast, whatever the order
\* in which the store completes the writes.
C28_ChatBroadcastInAppendOrder ==
    [][partyLast'.type = "store_done" /\ partyLast'.task.kind = "chat"
       => \A t \in partyTasks' :
             t.kind = "chat" /\ t.roomCode = partyLast'.task.roomCode
                => t.seq > partyLast'.task.seq]_vars

\* ------------------------------------------------------------------------
\* The direct-chat server's claims (SpecDirect)
\* ------------------------------------------------------------------------
\* No 'close' event is waiting to be handled
NoCloseEventDue == \A ws \in DOMAIN directSockets : directSockets[ws].readyState # CLOSING

\* C23: whenever every close event has been handled, a user id is in
\* onlineUsers exactly when the user has at least one session whose transport
\* is open, and then userSockets holds a non-empty set for that user.
C23_OnlineIffLiveSession ==
    NoCloseEventDue =>
       \A userId \in UserIds :
          /\ userId \in DOMAIN onlineUsers <=> LiveSessions(userId) # {}
          /\ userId \in DOMAIN onlineUsers
                => userId \in DOMAIN userSockets /\ userSockets[userId] # {}

\* The step resumes a handlePrivateMessage invocation after its INSERT
PushStep == directLast'.type = "push"

HasFrame(frames, messageId) ==
    \E i \in 1..Len(frames) :
        frames[i].type = "private_message" /\ frames[i].message_id = messageId

\* C24: a private_message to a user with at least one live session is
\* delivered, stamped with the id the store assigned, to every live session
\* of that user.
C24_PushReachesEveryLiveSession ==
    [][PushStep =>
          \A ws \in LiveSessions(directLast'.task.to_user_id) :
              HasFrame(directSent'[ws], directLast'.task.messageId)]_vars

\* The step completes the replay on session ws, whose transport is open
ReplayStepOn(ws) ==
    /\ directLast'.type = "replay" /\ directLast'.ws = ws
    /\ directSockets[ws].readyState = OPEN

\* The rows stored for the receiver after row r
NewerRows(r) ==
    {i \in 1..Len(chatMessages) :
        chatMessages[i].receiver_id = r.receiver_id /\ chatMessages[i].id > r.id}

\* A handler that resumes while the receiver has no live session pushes to
\* no session, and the row is in the store
OfflinePushStaysStored ==
    PushStep /\ LiveSessions(directLast'.task.to_user_id) = {}
       => /\ \A ws \in Sessions : directSent'[ws] = <<>>
          /\ \E i \in 1..Len(chatMessages') :
                chatMessages'[i].id = directLast'.task.messageId

C26_ReplayNewestFirstBeforeLive ==
    [][/\ \A ws \in Sessions :
             ReplayStepOn(ws) =>
                \A i, j \in 1..Len(directSent'[ws]) :
                   i < j => directSent'[ws][i].timestamp > directSent'[ws][j].timestamp
       /\ PushStep =>
             \A ws \in Sessions :
                directSent'[ws] # <<>>
                   => ~(/\ directSockets[ws].stage = "replay"
                        /\ directSockets[ws].unread # <<>>)]_vars

\* No connect handler is suspended, no close event is due and the store has
\* applied every status write: without a further connect or close nothing
\* writes is_online again
StatusQuiescent ==
    /\ statusWrites = {}
    /\ \A ws \in DOMAIN directSockets :
          /\ directSockets[ws].readyState # CLOSING
          /\ directSockets[ws].stage \in {"ready", "failed"}

\* C27: once connects and closes stop, the store's is_online for a user
\* equals "the user has at least one live session", for every order in which
\* the store applies the online and offline writes.
C27_StatusSettles ==
    StatusQuiescent =>
       \A userId \in UserIds : isOnline[userId] <=> LiveSessions(userId) # {}

\* ------------------------------------------------------------------------
\* Room eviction in server.js
\* ------------------------------------------------------------------------
\* C29: a room whose participant map is not empty is never removed from the
\* registry, neither by the deferred-eviction timer nor by the sweeper, nor
\* by any other step.
C29_OccupiedRoomStays ==
    [][\A roomCode \in DOMAIN rooms :
          Len(rooms[roomCode].participants) > 0 => roomCode \in DOMAIN rooms']_vars

\* The sweeper has run over an occupied room that is older than its threshold
C29_Witness ==
    /\ last.type = "sweep"
    /\ \E roomCode \in DOMAIN rooms :
          /\ Len(Participants(roomCode)) > 0
          /\ now - rooms[roomCode].created_at > InactiveThreshold

\* C30: a deferred-eviction timer deletes a room only if the room had no
\* participant during the 5 minutes before the deletion: a room whose last
\* participant left in the step before the timer fires, at the same clock
\* value, is not deleted by that timer, which an earlier emptying scheduled.
C30_TimerSparesRoomEmptiedAgain ==
    [][ ( /\ last.type \in {"leave", "close"}
          /\ last.left
          /\ last'.type = "timer"
          /\ last'.roomCode = RoomOf(last.ws)
          /\ RoomOf(last.ws) \in DOMAIN rooms )
        => last'.roomCode \in DOMAIN rooms' ]_vars

\* ------------------------------------------------------------------------
\* Session close, sweeper and room isolation in server.js
\* ------------------------------------------------------------------------
\* The participant entry of the user of session ws, in the room ws is bound
\* to, belongs to another session
EntryOfOtherSession(ws) ==
    /\ RoomOf(ws) \in DOMAIN rooms
    /\ PHas(rooms[RoomOf(ws)].participants, sockets[ws].userId)
    /\ PGet(rooms[RoomOf(ws)].participants, sockets[ws].userId).ws # ws

\* C31: the close of a session removes a user from a room's participant map
\* only if the participant entry's session handle is the closing session:
\* when the same user id has joined again through a newer session, closing
\* the older session leaves the user a participant bound to the newer one.
C31_CloseSparesNewerSession ==
    [][\A ws \in Sessions :
          (/\ ws \in DOMAIN sockets
           /\ last'.type = "close" /\ last'.ws = ws
           /\ EntryOfOtherSession(ws))
          => /\ RoomOf(ws) \in DOMAIN rooms'
             /\ PHas(rooms'[RoomOf(ws)].participants, sockets[ws].userId)
             /\ PGet(rooms'[RoomOf(ws)].participants, sockets[ws].userId).ws
                   = PGet(rooms[RoomOf(ws)].participants, sockets[ws].userId).ws]_vars

\* The sessions that some room's participant map holds
BoundSessions ==
    {ws \in Sessions :
        \E roomCode \in DOMAIN rooms :
           \E i \in 1..Len(Participants(roomCode)) : Participants(roomCode)[i].ws = ws}

\* C32: after a session's close event has been handled, no room's
\* participant map holds that session, also when the sweeper has dropped the
\* session's connections entry before the close event.
C32_ClosedSessionLeavesRoom ==
    [][last'.type = "close" => last'.ws \notin BoundSessions']_vars

\* The sessions that the participant map of a room holds
SessionsIn(rms, roomCode) ==
    IF roomCode \notin DOMAIN rms THEN {}
    ELSE {rms[roomCode].participants[i].ws : i \in 1..Len(rms[roomCode].participants)}

RoomCommands == {"join", "chat_message", "playback_update", "leave", "close"}

\* C33: a command from a session bound to room R leaves the state of every
\* other room unchanged and delivers no frame to a session that is a
\* participant only of another room.
C33_CommandsStayInTheirRoom ==
    [][\A ws \in Sessions :
          (/\ ws \in DOMAIN sockets
           /\ last'.type \in RoomCommands /\ last'.ws = ws)
          => /\ \A roomCode \in DOMAIN rooms \ {RoomOf(ws)} :
                   roomCode \in DOMAIN rooms' /\ rooms'[roomCode] = rooms[roomCode]
             /\ DOMAIN rooms' \subseteq DOMAIN rooms \cup {RoomOf(ws)}
             /\ \A other \in Sessions :
                   (/\ other \notin SessionsIn(rooms, RoomOf(ws))
                    /\ other \notin SessionsIn(rooms', RoomOf(ws))
                    /\ \E roomCode \in DOMAIN rooms \ {RoomOf(ws)} :
                          other \in SessionsIn(rooms, roomCode))
                   => sent'[other] = <<>>]_vars

\* A chat or playback command has been delivered in one room while another
\* room has a participant
C33_Witness ==
    /\ last.type \in {"chat_message", "playback_update"}
    /\ \E other \in Sessions : sent[other] # <<>>
    /\ \E roomCode \in DOMAIN rooms \ {RoomOf(last.ws)} :
          Len(Participants(roomCode)) > 0

\* ------------------------------------------------------------------------
\* Further claims on the direct-chat server
\* ------------------------------------------------------------------------
\* C34: for every user id in onlineUsers, the session handle stored in that
\* entry, the one frames are pushed to, is a member of userSockets for that
\* user.
C34_EntrySessionIsRegistered ==
    \A userId \in DOMAIN onlineUsers :
        /\ userId \in DOMAIN userSockets
        /\ onlineUsers[userId] \in userSockets[userId]

\* C35: no session receives the same stored private message (same
\* message_id) more than once: no step delivers to a session a message id
\* the session has received before, nor the same id twice.
C35_NoDuplicateDelivery ==
    [][\A ws \in Sessions :
          \A i \in 1..Len(directSent'[ws]) :
             directSent'[ws][i].type = "private_message"
                => /\ directSent'[ws][i].message_id \notin directInbox[ws]
                   /\ \A j \in 1..Len(directSent'[ws]) :
                         (/\ j # i
                          /\ directSent'[ws][j].type = "private_message")
                         => directSent'[ws][j].message_id
                               # directSent'[ws][i].message_id]_vars

\* ------------------------------------------------------------------------
\* Playback in the store-backed variant (SpecPartyPlay)
\* ------------------------------------------------------------------------
\* C36: once all in-flight playback_update commands of a room have completed,
\* the (current_time, is_playing) of the last playback_update frame broadcast
\* to the room equals the room's in-memory playback state: the broadcast
\* that leaves no playback update of the room waiting carries that state.
C36_LastBroadcastMatchesMemory ==
    [][(/\ partyLast'.type = "store_done"
        /\ partyLast'.task.kind = "playback"
        /\ partyLast'.task.roomCode \in DOMAIN partyRooms'
        /\ \A t \in partyTasks' :
              ~(t.kind = "playback" /\ t.roomCode = partyLast'.task.roomCode))
       => LET info == partyRooms'[partyLast'.task.roomCode].info
          IN /\ partyLast'.task.frame.current_time = info.video_current_time
             /\ partyLast'.task.frame.is_playing = info.is_playing]_vars

=============================================================================
